---- MODULE Spec2Model ----
(***************************************************************************)
(* State-machine model of mpris-lyrics-rs: the polling listener            *)
(* (mpris/listener.rs, mpris/events.rs), the event forwarder (app/core.rs) *)
(* and the lyrics manager (lyrics/manager.rs).                             *)
(*                                                                         *)
(* Encodings: a HashMap<String, V> is a function whose DOMAIN is the key   *)
(* set; an Option<T> is a set with at most one element ({} is None).       *)
(* HashMap iteration order is unspecified in Rust, so every iteration is   *)
(* modelled by a nondeterministically chosen ordering of the keys.         *)
(***************************************************************************)
EXTENDS Integers, Sequences, FiniteSets, Bags, TLC

VARIABLES
    \* ---- MprisListener (mpris/listener.rs) ----
    player_states,        \* HashMap<String, PlayerState>: cached states
    active_player_name,   \* Option<String>: the listener's active pointer
    snapshot,             \* result of the latest fetch_current_player_states
    events_to_send,       \* events of the current tick not yet sent
    ticks,                \* number of polls performed
    player_blacklist,     \* HashSet<String>: the configured blacklist patterns
    poll_pc,              \* the polling task: "tick" | "backoff" | "retry" | "ended"
    \* ---- channels ----
    mpris_events,         \* listener -> forward_events
    lyrics_queue,         \* forward_events -> LyricsManager::run
    display_queue,        \* forward_events / notify tasks -> display manager
    lyrics_closed,        \* receiver of lyrics_queue dropped
    display_closed,       \* receiver of display_queue dropped
    \* ---- forward_events (app/core.rs) ----
    fwd_pc,               \* "recv" | "lyrics" | "display"
    fwd_event,            \* Option<PlayerEvent> held by the forwarder
    \* ---- LyricsManager (lyrics/manager.rs) ----
    player_status,        \* HashMap<String, PlaybackStatus>
    current_track,        \* HashMap<String, TrackInfo>
    current_lyrics,       \* HashMap<String, Lyrics>
    current_player,       \* Option<String>
    manual_mode,          \* bool
    last_position_update, \* players with a position update inside the window
    run_task,             \* Option<task>: handle_track_changed awaited by run
    spawned_tasks,        \* bag of handle_track_changed tasks spawned by run
    notify_tasks,         \* bag of spawned sends of ActivePlayerChanged
    \* ---- display side ----
    display_player,       \* Option<String>: player shown by the renderer
    \* ---- get_lyric_at_time (pure lookup) ----
    doc_lines,            \* lines of the document under lookup
    query_ms,             \* Option<u64>: last time looked up
    query_result,         \* Option<index>: index of the line returned
    lrc_content,          \* the LRC text a provider has read
    switch_call,          \* Option: the last set_current_player call and what it returned
    song_search,          \* Option: the last find_best_match call of a provider
    compared,             \* Option: the last string_similarity call
    \* ---- the mutexes of LyricsManager ----
    mutex_owner,          \* mutex -> Option<thread>: the thread that holds the guard
    lock_script,          \* thread -> the lock and unlock steps left in its operation
    \* ---- observation (history) variables ----
    tick_log,             \* polls that took {A:Playing}, A active, to {A:Paused, B:Playing}
    apc_log,              \* ActivePlayerChanged events produced for the polls in tick_log
    recv_log,             \* events received by forward_events
    lyrics_log,           \* events enqueued to lyrics_queue by forward_events
    display_log,          \* events enqueued to display_queue by forward_events
    requested,            \* per player, the track of the last TrackChanged that run handled
    fetch_log,            \* the last call of fetch_lyrics_from_providers: outcomes met, providers called, result
    display_seen          \* per player, the latest `born` among its events put into display_queue

listener_vars == <<player_states, active_player_name, snapshot, events_to_send, ticks>>
chan_vars     == <<mpris_events, lyrics_queue, display_queue, lyrics_closed, display_closed>>
fwd_vars      == <<fwd_pc, fwd_event>>
orch_vars     == <<player_status, current_track, current_lyrics, current_player,
                   manual_mode, last_position_update, run_task, spawned_tasks, notify_tasks>>
lock_vars     == <<mutex_owner, lock_script>>
lookup_vars   == <<doc_lines, query_ms, query_result, lrc_content, switch_call, song_search, compared, lock_vars>>
hist_vars     == <<tick_log, apc_log, recv_log, lyrics_log, display_log, requested, fetch_log,
                   display_seen>>
vars == <<listener_vars, chan_vars, fwd_vars, orch_vars, display_player, lookup_vars, player_blacklist, poll_pc, hist_vars>>

----------------------------------------------------------------------------
\* Bounds of the model

\* polls performed in one behaviour of the whole program
MaxTicks == 2
\* polls performed in one behaviour of the listener taken alone
MaxPolls == 3
\* capacity of each mpsc channel in the model (the program uses 100)
ChanCap == 1
\* handle_track_changed tasks spawned and not yet finished
MaxSpawned == 1
\* notify_active_player_changed sends spawned and not yet delivered
MaxNotify == 2
\* configured lyrics providers
NumProviders == 2
\* lines of a document under lookup
MaxLines == 3
\* largest timestamp of a document under lookup / of a lookup
MaxTime == 4
\* events sent to forward_events when it is taken alone
MaxFeed == 3
\* longest blacklist pattern
MaxPattern == 2

Ids == {"A", "B"}

None == {}
Some(x) == {x}
IsSome(o) == o # {}
Unwrap(o) == CHOOSE x \in o : TRUE

Playing == "Playing"
Paused  == "Paused"
Stopped == "Stopped"
PlaybackStatus == {Playing, Paused, Stopped}

\* TrackInfo (mpris/types.rs): album and length_ms take no part in any decision
TrackInfo(id, title, artist) == [id |-> id, title |-> title, artist |-> artist]
Song1 == TrackInfo(1, "Song1", "X")
Song2 == TrackInfo(2, "Song2", "X")

\* the Arc<Mutex<..>> fields of LyricsManager and the threads that lock them:
\* the event loop, a spawned handle_track_changed, the renderer
Mutexes == {"current_lyrics", "current_track", "current_player", "player_status",
            "manual_mode", "last_position_update"}
Threads == {"run", "task", "ui"}

PlayerState(t, s, p) == [track_info |-> t, playback_status |-> s, last_position_ms |-> p]

\* HashMap helpers
Insert(m, k, v) == [x \in (DOMAIN m) \cup {k} |-> IF x = k THEN v ELSE m[x]]
Remove(m, k)    == [x \in (DOMAIN m) \ {k} |-> m[x]]
Get(m, k)       == IF k \in DOMAIN m THEN Some(m[k]) ELSE None
EmptyMap        == [x \in {} |-> 0]

\* all orderings of a finite set (an iteration order of a HashMap / a Vec)
RECURSIVE Orderings(_)
Orderings(S) ==
    IF S = {} THEN {<<>>}
    ELSE UNION {{<<x>> \o o : o \in Orderings(S \ {x})} : x \in S}

RECURSIVE SelectSeq2(_, _)
\* subsequence of s whose elements lie in S
SelectSeq2(s, S) ==
    IF s = <<>> THEN <<>>
    ELSE (IF Head(s) \in S THEN <<Head(s)>> ELSE <<>>) \o SelectSeq2(Tail(s), S)

RECURSIVE FlattenSeq(_)
FlattenSeq(ss) == IF ss = <<>> THEN <<>> ELSE Head(ss) \o FlattenSeq(Tail(ss))

----------------------------------------------------------------------------
\* PlayerEvent (mpris/types.rs); unused payload fields hold "-" / None.  The
\* fields tick and born are observation labels: tick is the poll that caused
\* the event (0 for events not caused by a poll), born is the value of the
\* listener's poll counter when the event was produced (a notification of the
\* lyrics manager is born when the manager builds it); no operation of the
\* program reads them.

Event(type, name, status, track) ==
    [type |-> type, player_name |-> name, status |-> status, track_info |-> track,
     tick |-> 0, born |-> 0]

Stamp(events, t) == [i \in 1..Len(events) |-> [events[i] EXCEPT !.tick = t, !.born = t]]

PlayerAppeared(n)           == Event("PlayerAppeared", n, "-", None)
PlayerDisappeared(n)        == Event("PlayerDisappeared", n, "-", None)
TrackChanged(n, t)          == Event("TrackChanged", n, "-", Some(t))
PlaybackStatusChanged(n, s) == Event("PlaybackStatusChanged", n, s, None)
PositionChanged(n)          == Event("PositionChanged", n, "-", None)
ActivePlayerChanged(n, s)   == Event("ActivePlayerChanged", n, s, None)
NoPlayersAvailable          == Event("NoPlayersAvailable", "-", "-", None)

----------------------------------------------------------------------------
\* mpris/events.rs

\* compare_single_player_state: events for one identity present in both maps
TrackEvents(identity, old_state, current_state) ==
    IF IsSome(old_state.track_info) /\ IsSome(current_state.track_info)
    THEN LET old_track == Unwrap(old_state.track_info)
             current_track_ == Unwrap(current_state.track_info)
             track_changed ==
                 \/ old_track.id # current_track_.id
                 \/ old_track.title # current_track_.title
                 \/ old_track.artist # current_track_.artist
         IN IF track_changed THEN <<TrackChanged(identity, current_track_)>> ELSE <<>>
    ELSE IF ~IsSome(old_state.track_info) /\ IsSome(current_state.track_info)
    THEN <<TrackChanged(identity, Unwrap(current_state.track_info))>>
    ELSE <<>>

StatusEvents(identity, old_state, current_state) ==
    IF IsSome(old_state.playback_status) /\ IsSome(current_state.playback_status)
    THEN IF old_state.playback_status # current_state.playback_status
         THEN <<PlaybackStatusChanged(identity, Unwrap(current_state.playback_status))>>
         ELSE <<>>
    ELSE IF ~IsSome(old_state.playback_status) /\ IsSome(current_state.playback_status)
    THEN <<PlaybackStatusChanged(identity, Unwrap(current_state.playback_status))>>
    ELSE <<>>

PositionEvents(identity, old_state, current_state) ==
    IF /\ current_state.playback_status = Some(Playing)
       /\ old_state.last_position_ms # current_state.last_position_ms
    THEN <<PositionChanged(identity)>>
    ELSE <<>>

compare_single_player_state(identity, old_state, current_state) ==
    TrackEvents(identity, old_state, current_state)
      \o StatusEvents(identity, old_state, current_state)
      \o PositionEvents(identity, old_state, current_state)

\* the events of a new identity with PlayerAppeared pushed after the others
AppearedEventsLate(identity, current_state) ==
    (IF IsSome(current_state.track_info)
     THEN <<TrackChanged(identity, Unwrap(current_state.track_info))>> ELSE <<>>)
      \o (IF IsSome(current_state.playback_status)
          THEN <<PlaybackStatusChanged(identity, Unwrap(current_state.playback_status))>>
          ELSE <<>>)
      \o <<PlayerAppeared(identity)>>

\* events pushed for an identity that is in the current map only
AppearedEvents(identity, current_state) ==
    <<PlayerAppeared(identity)>>
      \o (IF IsSome(current_state.track_info)
          THEN <<TrackChanged(identity, Unwrap(current_state.track_info))>> ELSE <<>>)
      \o (IF IsSome(current_state.playback_status)
          THEN <<PlaybackStatusChanged(identity, Unwrap(current_state.playback_status))>>
          ELSE <<>>)

\* compare_states_and_generate_events; cur_order / old_order are the
\* iteration orders of the two HashMaps
compare_states_and_generate_events(current_states_data, old_states, cur_order, old_order) ==
    LET appeared == [i \in 1..Len(cur_order) |->
                       IF cur_order[i] \notin DOMAIN old_states
                       THEN AppearedEvents(cur_order[i], current_states_data[cur_order[i]])
                       ELSE <<>>]
        gone     == [i \in 1..Len(old_order) |->
                       IF old_order[i] \notin DOMAIN current_states_data
                       THEN <<PlayerDisappeared(old_order[i])>>
                       ELSE <<>>]
        changed  == [i \in 1..Len(cur_order) |->
                       IF cur_order[i] \in DOMAIN old_states
                       THEN compare_single_player_state(cur_order[i],
                                old_states[cur_order[i]], current_states_data[cur_order[i]])
                       ELSE <<>>]
    IN FlattenSeq(appeared) \o FlattenSeq(gone) \o FlattenSeq(changed)

\* the first candidate of the arbiter: playing, else paused, else any player
PickActive(current_playing_players, current_paused_players, current_states_data, cur_order) ==
    IF current_playing_players # <<>>
    THEN <<Some(current_playing_players[1]),
           Some(ActivePlayerChanged(current_playing_players[1], Playing))>>
    ELSE IF current_paused_players # <<>>
    THEN <<Some(current_paused_players[1]),
           Some(ActivePlayerChanged(current_paused_players[1], Paused))>>
    ELSE IF DOMAIN current_states_data # {}
    THEN <<Some(cur_order[1]), Some(ActivePlayerChanged(cur_order[1], Stopped))>>
    ELSE <<None, None>>

\* an arbiter that keeps its pointer once set, without looking whether the
\* player is still in the snapshot
determine_and_update_active_player_sticky(current_playing_players, current_paused_players, current_states_data, cur_order, active) ==
    IF ~IsSome(active)
    THEN PickActive(current_playing_players, current_paused_players,
                    current_states_data, cur_order)
    ELSE <<active, None>>

\* an arbiter that selects again at every poll and reports what it selected
determine_and_update_active_player_eager(current_playing_players, current_paused_players, current_states_data, cur_order, active) ==
    PickActive(current_playing_players, current_paused_players,
               current_states_data, cur_order)

\* determine_and_update_active_player: the pair <<new pointer, Option<event>>>
determine_and_update_active_player(current_playing_players, current_paused_players, current_states_data, cur_order, active) ==
    LET need_change == IF IsSome(active)
                       THEN Unwrap(active) \notin DOMAIN current_states_data
                       ELSE DOMAIN current_states_data # {}
    IN IF need_change \/ ~IsSome(active)
       THEN PickActive(current_playing_players, current_paused_players,
                       current_states_data, cur_order)
       ELSE <<active, None>>

----------------------------------------------------------------------------
\* mpris/listener.rs

\* get_player_state: what a visible player reports in one poll.  In the whole
\* program player A is on Song1 (Playing or Paused) or plays Song2, and player
\* B plays without metadata; for the listener taken alone each player is on
\* Song1 with any playback status, known or not.
PolledStates(identity) ==
    IF identity = "A"
    THEN {PlayerState(Some(Song1), Some(Playing), 0), PlayerState(Some(Song1), Some(Paused), 0),
          PlayerState(Some(Song2), Some(Playing), 0)}
    ELSE {PlayerState(None, Some(Playing), 0)}
AnyStatusStates(identity) ==
    {PlayerState(Some(Song1), s, 0) : s \in {None} \cup {Some(x) : x \in PlaybackStatus}}

\* the snapshots in which every visible player reports one of states[player]
SnapshotsOf(states) ==
    UNION {{f \in [S -> UNION {states[i] : i \in S}] :
              \A i \in S : f[i] \in states[i]} : S \in SUBSET Ids}
Snapshots    == SnapshotsOf([i \in Ids |-> PolledStates(i)])
AllSnapshots == SnapshotsOf([i \in Ids |-> AnyStatusStates(i)])

\* playing_players / paused_players of fetch_current_player_states, in the
\* order find_all listed the players
PlayersWith(states, find_order, status) ==
    SelectSeq2(find_order, {i \in DOMAIN states : states[i].playback_status = Some(status)})

Option2Seq(o) == IF IsSome(o) THEN <<Unwrap(o)>> ELSE <<>>

\* a poll that sends its ActivePlayerChanged before the events of the diff
ListenerPollSwitchFirst(snapshot_choices, max_ticks) ==
    /\ ticks < max_ticks
    /\ events_to_send = <<>>
    /\ \E current_states_data \in snapshot_choices :
       \E find_order \in Orderings(DOMAIN current_states_data),
          cur_order \in Orderings(DOMAIN current_states_data),
          old_order \in Orderings(DOMAIN player_states),
          timer_due \in BOOLEAN :
         /\ snapshot' = current_states_data
         /\ ticks' = ticks + 1
         /\ IF DOMAIN current_states_data = {}
            THEN /\ active_player_name' = None
                 /\ events_to_send' =
                      IF IsSome(active_player_name) \/ timer_due
                      THEN Stamp(<<NoPlayersAvailable>>, ticks') ELSE <<>>
                 /\ UNCHANGED player_states
            ELSE LET diff == compare_states_and_generate_events(
                                 current_states_data, player_states, cur_order, old_order)
                     res  == determine_and_update_active_player(
                                 PlayersWith(current_states_data, find_order, Playing),
                                 PlayersWith(current_states_data, find_order, Paused),
                                 current_states_data, cur_order, active_player_name)
                 IN /\ active_player_name' = res[1]
                    /\ events_to_send' = Stamp(Option2Seq(res[2]) \o diff, ticks')
                    /\ player_states' = current_states_data

\* poll_players_and_send_events_static up to the first send: fetch, diff,
\* arbitrate, replace the cache
ListenerPoll(snapshot_choices, max_ticks) ==
    /\ ticks < max_ticks
    /\ events_to_send = <<>>
    /\ \E current_states_data \in snapshot_choices :
       \E find_order \in Orderings(DOMAIN current_states_data),
          cur_order \in Orderings(DOMAIN current_states_data),
          old_order \in Orderings(DOMAIN player_states),
          timer_due \in BOOLEAN :
         /\ snapshot' = current_states_data
         /\ ticks' = ticks + 1
         /\ IF DOMAIN current_states_data = {}
            THEN /\ active_player_name' = None
                 /\ events_to_send' =
                      IF IsSome(active_player_name) \/ timer_due
                      THEN Stamp(<<NoPlayersAvailable>>, ticks') ELSE <<>>
                 /\ UNCHANGED player_states
            ELSE LET diff == compare_states_and_generate_events(
                                 current_states_data, player_states, cur_order, old_order)
                     res  == determine_and_update_active_player(
                                 PlayersWith(current_states_data, find_order, Playing),
                                 PlayersWith(current_states_data, find_order, Paused),
                                 current_states_data, cur_order, active_player_name)
                 IN /\ active_player_name' = res[1]
                    /\ events_to_send' = Stamp(diff \o Option2Seq(res[2]), ticks')
                    /\ player_states' = current_states_data

\* one sender.send(event).await of the polling task
ListenerSend ==
    /\ events_to_send # <<>>
    /\ Len(mpris_events) < ChanCap
    /\ mpris_events' = Append(mpris_events, Head(events_to_send))
    /\ events_to_send' = Tail(events_to_send)

----------------------------------------------------------------------------
\* app/core.rs: forward_events

\* a forwarder whose match leaves send_to_lyrics true for every event
FwdRecvUnfiltered ==
    /\ fwd_pc = "recv"
    /\ mpris_events # <<>>
    /\ fwd_event' = Some(Head(mpris_events))
    /\ mpris_events' = Tail(mpris_events)
    /\ fwd_pc' = "lyrics"

\* while let Some(event) = mpris_events.recv().await, and the match that
\* decides send_to_lyrics
FwdRecv ==
    /\ fwd_pc = "recv"
    /\ mpris_events # <<>>
    /\ fwd_event' = Some(Head(mpris_events))
    /\ mpris_events' = Tail(mpris_events)
    /\ fwd_pc' = IF Head(mpris_events).type = "PositionChanged" THEN "display" ELSE "lyrics"

\* a forwarder that would give up on its loop when the lyrics receiver is gone
FwdSendLyricsGivesUp ==
    /\ fwd_pc = "lyrics"
    /\ ~lyrics_closed
    /\ Len(lyrics_queue) < ChanCap
    /\ lyrics_queue' = Append(lyrics_queue, Unwrap(fwd_event))
    /\ fwd_pc' = "display"
    /\ UNCHANGED fwd_event

\* a forwarder that would use try_send: a full queue loses the event
FwdSendLyricsTrySend ==
    /\ fwd_pc = "lyrics"
    /\ lyrics_queue' = IF lyrics_closed \/ Len(lyrics_queue) >= ChanCap
                       THEN lyrics_queue
                       ELSE Append(lyrics_queue, Unwrap(fwd_event))
    /\ fwd_pc' = "display"
    /\ UNCHANGED fwd_event

\* tx_lyrics.send(event.clone()).await: waits while the queue is full, returns
\* Err (logged) when the receiver is gone
FwdSendLyrics ==
    /\ fwd_pc = "lyrics"
    /\ IF lyrics_closed
       THEN UNCHANGED lyrics_queue
       ELSE /\ Len(lyrics_queue) < ChanCap
            /\ lyrics_queue' = Append(lyrics_queue, Unwrap(fwd_event))
    /\ fwd_pc' = "display"
    /\ UNCHANGED fwd_event

\* tx_display.send(event).await, then back to recv
FwdSendDisplay ==
    /\ fwd_pc = "display"
    /\ IF display_closed
       THEN UNCHANGED display_queue
       ELSE /\ Len(display_queue) < ChanCap
            /\ display_queue' = Append(display_queue, Unwrap(fwd_event))
    /\ fwd_pc' = "recv"
    /\ fwd_event' = None

----------------------------------------------------------------------------
\* lyrics/manager.rs: LyricsManager

\* Lyrics as built by a provider's parse_lrc: the metadata title is the
\* track's title, source names the provider
Lyrics(track, provider) == [title |-> track.title, source |-> provider]

Providers == 1..NumProviders
\* what one search_lyrics call returns: Ok(Some(lyrics)), Ok(None), Err(e).
\* Every provider returns Ok(None) instead of a document without lines.
Outcomes == {"found", "none", "err"}

Task(name, track, pc) ==
    [player_name |-> name, track_info |-> track, pc |-> pc, result |-> None,
     calls |-> <<>>, cause |-> 0]

\* select_best_player: the set of players it can return (the choice inside a
\* class follows the HashMap's iteration order); {} when it returns None
select_best_player(status_map, recent) ==
    LET playing_players == {p \in DOMAIN status_map :
                               status_map[p] = Playing \/ p \in recent}
        paused_players  == {p \in DOMAIN status_map : status_map[p] = Paused}
    IN IF playing_players # {} THEN playing_players
       ELSE IF paused_players # {} THEN paused_players
       ELSE DOMAIN status_map

\* notify_active_player_changed: the event whose send is spawned
Notification(status_map, name) ==
    ActivePlayerChanged(name, IF name \in DOMAIN status_map THEN status_map[name] ELSE Stopped)

\* a fetch that asks every provider and keeps the last document found
RECURSIVE fetch_lyrics_from_providers_all(_, _, _, _)
fetch_lyrics_from_providers_all(track, outcome, i, called) ==
    IF i > NumProviders THEN <<None, called>>
    ELSE LET rest == fetch_lyrics_from_providers_all(track, outcome, i + 1, Append(called, i))
         IN IF outcome[i] = "found" /\ ~IsSome(rest[1])
            THEN <<Some(Lyrics(track, i)), rest[2]>>
            ELSE rest

\* a fetch that gives up at the first provider that fails
RECURSIVE fetch_lyrics_from_providers_abort(_, _, _, _)
fetch_lyrics_from_providers_abort(track, outcome, i, called) ==
    IF i > NumProviders THEN <<None, called>>
    ELSE IF outcome[i] = "found"
         THEN <<Some(Lyrics(track, i)), Append(called, i)>>
         ELSE IF outcome[i] = "err"
              THEN <<None, Append(called, i)>>
              ELSE fetch_lyrics_from_providers_abort(track, outcome, i + 1, Append(called, i))

\* fetch_lyrics_from_providers for given outcomes of the providers:
\* <<result, providers called, in call order>>
RECURSIVE fetch_lyrics_from_providers(_, _, _, _)
fetch_lyrics_from_providers(track, outcome, i, called) ==
    IF i > NumProviders THEN <<None, called>>
    ELSE IF outcome[i] = "found"
         THEN <<Some(Lyrics(track, i)), Append(called, i)>>
         ELSE fetch_lyrics_from_providers(track, outcome, i + 1, Append(called, i))

RunIdle == ~IsSome(run_task) /\ lyrics_queue # <<>>
RunHead == Head(lyrics_queue)

\* handle_track_changed, first lock section: record the track; an empty title
\* ends the handler.  Returns <<current_track', Option<next pc>>>
TrackChangedBegin(name, track) ==
    <<Insert(current_track, name, track),
      IF track.title = "" THEN None ELSE Some("clear")>>

\* run, arm TrackChanged: handle_track_changed(...).await starts
RunTrackChanged ==
    /\ RunIdle /\ RunHead.type = "TrackChanged"
    /\ lyrics_queue' = Tail(lyrics_queue)
    /\ LET name == RunHead.player_name
           track == Unwrap(RunHead.track_info)
           r == TrackChangedBegin(name, track)
       IN /\ current_track' = r[1]
          /\ run_task' = IF IsSome(r[2])
                         THEN Some([Task(name, track, "clear") EXCEPT !.cause = RunHead.tick])
                         ELSE None
    /\ UNCHANGED <<player_status, current_lyrics, current_player, manual_mode,
                   last_position_update, spawned_tasks, notify_tasks>>

\* run, arm PlaybackStatusChanged.  Gives <<current_player', players notified>>
StatusChangedSwitch(name, status, status_map, best) ==
    IF status = Playing
    THEN IF ~manual_mode
         THEN IF current_player # Some(name)
              THEN <<Some(name), <<name>>>> ELSE <<current_player, <<>>>>
         ELSE IF ~IsSome(current_player)
              THEN <<Some(name), <<name>>>> ELSE <<current_player, <<>>>>
    ELSE IF current_player = Some(name) /\ IsSome(best) /\ Unwrap(best) # name
         THEN <<best, <<Unwrap(best)>>>>
         ELSE <<current_player, <<>>>>

BestChoices(status_map, recent) ==
    IF select_best_player(status_map, recent) = {} THEN {None}
    ELSE {Some(p) : p \in select_best_player(status_map, recent)}

\* a notification whose send is spawned twice
NotifyTwice(status_map, names, cause) ==
    IF names = <<>> THEN notify_tasks
    ELSE notify_tasks (+) SetToBag({[Notification(status_map, names[1]) EXCEPT !.tick = cause,
                                                                         !.born = ticks]})
                      (+) SetToBag({[Notification(status_map, names[1]) EXCEPT !.tick = cause,
                                                                         !.born = ticks]})

Notify(status_map, names, cause) ==
    IF names = <<>> THEN notify_tasks
    ELSE notify_tasks (+) SetToBag({[Notification(status_map, names[1]) EXCEPT !.tick = cause,
                                                                         !.born = ticks]})

NotifyRoom == BagCardinality(notify_tasks) < MaxNotify

RunPlaybackStatusChanged ==
    /\ RunIdle /\ RunHead.type = "PlaybackStatusChanged"
    /\ NotifyRoom
    /\ lyrics_queue' = Tail(lyrics_queue)
    /\ LET name == RunHead.player_name
           status_map == Insert(player_status, name, RunHead.status)
       IN /\ player_status' = status_map
          /\ \E best \in BestChoices(status_map, last_position_update) :
               LET r == StatusChangedSwitch(name, RunHead.status, status_map, best)
               IN /\ current_player' = r[1]
                  /\ notify_tasks' = Notify(status_map, r[2], RunHead.tick)
    /\ UNCHANGED <<current_track, current_lyrics, manual_mode, last_position_update,
                   run_task, spawned_tasks>>

\* run, arms PlayerAppeared and `_` (NoPlayersAvailable): nothing is changed
RunIgnored ==
    /\ RunIdle /\ RunHead.type \in {"PlayerAppeared", "NoPlayersAvailable"}
    /\ lyrics_queue' = Tail(lyrics_queue)
    /\ UNCHANGED orch_vars

\* run, arm PlayerDisappeared
RunPlayerDisappeared ==
    /\ RunIdle /\ RunHead.type = "PlayerDisappeared"
    /\ NotifyRoom
    /\ lyrics_queue' = Tail(lyrics_queue)
    /\ LET name == RunHead.player_name
           status_map == Remove(player_status, name)
           recent == last_position_update \ {name}
       IN /\ player_status' = status_map
          /\ last_position_update' = recent
          /\ IF current_player = Some(name)
             THEN \E best \in BestChoices(status_map, recent) :
                    /\ current_player' = best
                    /\ notify_tasks' = Notify(status_map, Option2Seq(best), RunHead.tick)
             ELSE UNCHANGED <<current_player, notify_tasks>>
          /\ current_track' = Remove(current_track, name)
          /\ current_lyrics' = Remove(current_lyrics, name)
    /\ UNCHANGED <<manual_mode, run_task, spawned_tasks>>

\* run, arm ActivePlayerChanged: adopt the player and, when its track is
\* known, spawn handle_track_changed for it
RunActivePlayerChanged ==
    /\ RunIdle /\ RunHead.type = "ActivePlayerChanged"
    /\ BagCardinality(spawned_tasks) < MaxSpawned
    /\ lyrics_queue' = Tail(lyrics_queue)
    /\ LET name == RunHead.player_name
       IN /\ current_player' = Some(name)
          /\ spawned_tasks' =
               IF name \in DOMAIN current_track
               THEN spawned_tasks (+) SetToBag({[Task(name, current_track[name], "begin")
                                                   EXCEPT !.cause = RunHead.tick]})
               ELSE spawned_tasks
    /\ UNCHANGED <<player_status, current_track, current_lyrics, manual_mode,
                   last_position_update, run_task, notify_tasks>>

\* ---- the steps of one handle_track_changed, awaited or spawned ----

\* second lock section: current_lyrics.remove(player_name)
TaskClear(task) ==
    /\ task.pc = "clear"
    /\ current_lyrics' = Remove(current_lyrics, task.player_name)

\* fetch_lyrics_from_providers(&track_info).await
TaskFetched(task, outcome) ==
    LET r == fetch_lyrics_from_providers(task.track_info, outcome, 1, <<>>)
    IN [task EXCEPT !.pc = "store", !.result = r[1], !.calls = r[2]]

\* third lock section: Ok(Some(lyrics)) => current_lyrics.insert(player_name, lyrics)
TaskStore(task) ==
    /\ task.pc = "store"
    /\ current_lyrics' = IF IsSome(task.result)
                         THEN Insert(current_lyrics, task.player_name, Unwrap(task.result))
                         ELSE current_lyrics

AwaitedClear ==
    /\ IsSome(run_task) /\ TaskClear(Unwrap(run_task))
    /\ run_task' = Some([Unwrap(run_task) EXCEPT !.pc = "fetch"])
    /\ UNCHANGED <<player_status, current_track, current_player, manual_mode,
                   last_position_update, spawned_tasks, notify_tasks, lyrics_queue>>

AwaitedFetch(outcome) ==
    /\ IsSome(run_task) /\ Unwrap(run_task).pc = "fetch"
    /\ run_task' = Some(TaskFetched(Unwrap(run_task), outcome))
    /\ UNCHANGED <<player_status, current_track, current_lyrics, current_player, manual_mode,
                   last_position_update, spawned_tasks, notify_tasks, lyrics_queue>>

\* what handle_track_changed returns: each arm of its match on the fetch
\* (Ok(Some), Ok(None), Err) falls through to the final Ok(())
handle_track_changed_returns(task) == "Ok"

\* the awaited handler ends; on Err the `?` of run would end the loop, the
\* task then stays as "returned_err" and run is never idle again
AwaitedStore ==
    /\ IsSome(run_task) /\ TaskStore(Unwrap(run_task))
    /\ run_task' = IF handle_track_changed_returns(Unwrap(run_task)) = "Ok"
                   THEN None
                   ELSE Some([Unwrap(run_task) EXCEPT !.pc = "returned_err"])
    /\ UNCHANGED <<player_status, current_track, current_player, manual_mode,
                   last_position_update, spawned_tasks, notify_tasks, lyrics_queue>>

Replace(bag, old, new) == (bag (-) SetToBag({old})) (+) new

SpawnedBegin ==
    \E task \in BagToSet(spawned_tasks) :
      /\ task.pc = "begin"
      /\ LET r == TrackChangedBegin(task.player_name, task.track_info)
         IN /\ current_track' = r[1]
            /\ spawned_tasks' = Replace(spawned_tasks, task,
                                  IF IsSome(r[2]) THEN SetToBag({[task EXCEPT !.pc = "clear"]})
                                  ELSE EmptyBag)
      /\ UNCHANGED <<player_status, current_lyrics, current_player, manual_mode,
                     last_position_update, run_task, notify_tasks, lyrics_queue>>

SpawnedClear ==
    \E task \in BagToSet(spawned_tasks) :
      /\ TaskClear(task)
      /\ spawned_tasks' = Replace(spawned_tasks, task, SetToBag({[task EXCEPT !.pc = "fetch"]}))
      /\ UNCHANGED <<player_status, current_track, current_player, manual_mode,
                     last_position_update, run_task, notify_tasks, lyrics_queue>>

SpawnedFetch(outcome) ==
    \E task \in BagToSet(spawned_tasks) :
      /\ task.pc = "fetch"
      /\ spawned_tasks' = Replace(spawned_tasks, task, SetToBag({TaskFetched(task, outcome)}))
      /\ UNCHANGED <<player_status, current_track, current_lyrics, current_player, manual_mode,
                     last_position_update, run_task, notify_tasks, lyrics_queue>>

SpawnedStore ==
    \E task \in BagToSet(spawned_tasks) :
      /\ TaskStore(task)
      /\ spawned_tasks' = Replace(spawned_tasks, task, EmptyBag)
      /\ UNCHANGED <<player_status, current_track, current_player, manual_mode,
                     last_position_update, run_task, notify_tasks, lyrics_queue>>

\* the send spawned by notify_active_player_changed
NotifySend ==
    \E event \in BagToSet(notify_tasks) :
      /\ IF display_closed
         THEN UNCHANGED display_queue
         ELSE /\ Len(display_queue) < ChanCap
              /\ display_queue' = Append(display_queue, event)
      /\ notify_tasks' = notify_tasks (-) SetToBag({event})

----------------------------------------------------------------------------
\* display/manager.rs: DisplayManager::handle_player_event, the part that
\* decides which player is shown

DisplayRecv ==
    /\ display_queue # <<>>
    /\ display_queue' = Tail(display_queue)
    /\ LET event == Head(display_queue)
       IN display_player' =
            CASE event.type = "PlayerAppeared" /\ ~IsSome(display_player)
                   -> Some(event.player_name)
              [] event.type = "PlayerDisappeared" /\ display_player = Some(event.player_name)
                   -> None
              [] event.type = "ActivePlayerChanged" -> Some(event.player_name)
              [] OTHER -> display_player

----------------------------------------------------------------------------
\* lyrics/manager.rs: get_lyric_at_time, and the documents it looks into

LyricLine(start, end, text) == [start_time |-> start, end_time |-> end, text |-> text]

\* utils/lrc.rs: time_lyrics.sort_by_key(|&(time, _)| time), a stable sort
RECURSIVE InsertSorted(_, _)
InsertSorted(sorted, x) ==
    IF sorted = <<>> THEN <<x>>
    ELSE IF x[1] < Head(sorted)[1] THEN <<x>> \o sorted
    ELSE <<Head(sorted)>> \o InsertSorted(Tail(sorted), x)

RECURSIVE sort_by_key(_)
sort_by_key(s) ==
    IF s = <<>> THEN <<>>
    ELSE InsertSorted(sort_by_key(SubSeq(s, 1, Len(s) - 1)), s[Len(s)])

\* a document whose lines all end one millisecond after they start
parse_lrc_short(time_lyrics) ==
    [i \in 1..Len(time_lyrics) |->
        LyricLine(time_lyrics[i][1], Some(time_lyrics[i][1] + 1), time_lyrics[i][2])]

\* providers' parse_lrc: line i ends where line i+1 starts, the last line has
\* no end
parse_lrc(time_lyrics) ==
    [i \in 1..Len(time_lyrics) |->
        LyricLine(time_lyrics[i][1],
                  IF i < Len(time_lyrics) THEN Some(time_lyrics[i + 1][1]) ELSE None,
                  time_lyrics[i][2])]

\* index of the first line that contains time_ms, scanning from line i
RECURSIVE FirstMatch(_, _, _)
FirstMatch(lines, time_ms, i) ==
    IF i > Len(lines) THEN None
    ELSE IF /\ lines[i].start_time <= time_ms
            /\ (~IsSome(lines[i].end_time) \/ Unwrap(lines[i].end_time) > time_ms)
         THEN Some(i)
         ELSE FirstMatch(lines, time_ms, i + 1)

\* get_lyric_at_time without the fallback to the first line: a time before the
\* first line finds no line
get_lyric_at_time_no_first(lines, time_ms) ==
    IF lines = <<>> THEN None
    ELSE IF IsSome(FirstMatch(lines, time_ms, 1)) THEN FirstMatch(lines, time_ms, 1)
    ELSE IF time_ms >= lines[Len(lines)].start_time THEN Some(Len(lines))
    ELSE None

\* get_lyric_at_time whose fallback is the last line whatever the time
get_lyric_at_time_last(lines, time_ms) ==
    IF lines = <<>> THEN None
    ELSE IF IsSome(FirstMatch(lines, time_ms, 1)) THEN FirstMatch(lines, time_ms, 1)
    ELSE Some(Len(lines))

\* get_lyric_at_time on the lines of the current document: the index of the
\* line it returns (None when there is no line)
get_lyric_at_time(lines, time_ms) ==
    IF lines = <<>> THEN None
    ELSE IF IsSome(FirstMatch(lines, time_ms, 1)) THEN FirstMatch(lines, time_ms, 1)
    ELSE IF time_ms >= lines[Len(lines)].start_time THEN Some(Len(lines))
    ELSE Some(1)

\* timed lines as a provider receives them: at most MaxLines tags in any order
RawLyrics == UNION {[1..n -> 0..MaxTime] : n \in 1..MaxLines}
Tagged(raw) == [i \in 1..Len(raw) |-> <<raw[i], i>>]
\* the documents a provider builds from them: LrcParser::parse sorts, the
\* provider's parse_lrc gives the lines their end times
Documents == {parse_lrc(sort_by_key(Tagged(raw))) : raw \in RawLyrics}

\* one call get_lyric_at_time(time_ms) by the renderer
Lookup ==
    /\ \E time_ms \in 0..(MaxTime + 1) :
         /\ query_ms' = Some(time_ms)
         /\ query_result' = get_lyric_at_time(doc_lines, time_ms)
    /\ UNCHANGED <<doc_lines, lrc_content, switch_call, song_search, compared, lock_vars>>

----------------------------------------------------------------------------
\* Observation of the ActivePlayerChanged events a poll gives rise to

SwitchScenario(before, active_before, after) ==
    /\ DOMAIN before = {"A"}
    /\ before["A"].playback_status = Some(Playing)
    /\ active_before = Some("A")
    /\ DOMAIN after = {"A", "B"}
    /\ after["A"].playback_status = Some(Paused)
    /\ after["B"].playback_status = Some(Playing)

ApcOf(events) ==
    LET apc == SelectSeq(events, LAMBDA e : e.type = "ActivePlayerChanged")
    IN [i \in 1..Len(apc) |-> <<apc[i].tick, apc[i].player_name>>]

BagSeq(bag) == IF BagToSet(bag) = {} THEN <<>> ELSE <<CHOOSE e \in BagToSet(bag) : TRUE>>

Observe ==
    /\ tick_log' = IF ticks' # ticks /\ SwitchScenario(snapshot, active_player_name, snapshot')
                   THEN tick_log \cup {ticks'} ELSE tick_log
    /\ apc_log' = apc_log \o
         SelectSeq(IF ticks' # ticks THEN ApcOf(events_to_send')
                   ELSE ApcOf(BagSeq(notify_tasks' (-) notify_tasks)),
                   LAMBDA a : a[1] \in tick_log')
    /\ requested' =
         IF lyrics_queue # <<>> /\ lyrics_queue' = Tail(lyrics_queue) /\ ~IsSome(run_task)
         THEN IF RunHead.type = "TrackChanged"
              THEN Insert(requested, RunHead.player_name, Unwrap(RunHead.track_info))
              ELSE IF RunHead.type = "PlayerDisappeared"
              THEN Remove(requested, RunHead.player_name)
              ELSE requested
         ELSE requested
    /\ display_seen' =
         IF Len(display_queue') > Len(display_queue)
         THEN LET e == display_queue'[Len(display_queue')]
              IN IF e.player_name \in DOMAIN display_seen
                    /\ display_seen[e.player_name] >= e.born
                 THEN display_seen
                 ELSE Insert(display_seen, e.player_name, e.born)
         ELSE display_seen

----------------------------------------------------------------------------
\* The program: listener, forwarder, lyrics manager and display manager

dist_logs == <<recv_log, lyrics_log, display_log, fetch_log>>
closed_vars == <<lyrics_closed, display_closed>>

Constructed ==
    /\ player_states = EmptyMap /\ active_player_name = None /\ snapshot = EmptyMap
    /\ events_to_send = <<>> /\ ticks = 0
    /\ mpris_events = <<>> /\ lyrics_queue = <<>> /\ display_queue = <<>>
    /\ lyrics_closed = FALSE /\ display_closed = FALSE
    /\ fwd_pc = "recv" /\ fwd_event = None
    /\ player_status = EmptyMap /\ current_track = EmptyMap /\ current_lyrics = EmptyMap
    /\ current_player = None /\ last_position_update = {}
    /\ run_task = None /\ spawned_tasks = EmptyBag /\ notify_tasks = EmptyBag
    /\ display_player = None
    /\ query_ms = None /\ query_result = None /\ lrc_content = <<>> /\ switch_call = None
    /\ song_search = None /\ compared = None
    /\ mutex_owner = [m \in Mutexes |-> None] /\ lock_script = [t \in Threads |-> <<>>]
    /\ tick_log = {} /\ apc_log = <<>>
    /\ recv_log = <<>> /\ lyrics_log = <<>> /\ display_log = <<>>
    /\ requested = EmptyMap /\ fetch_log = None /\ display_seen = EmptyMap

\* the state in which the tasks start: LyricsManager::new gives automatic mode,
\* set_manual_mode(true) is what the TUI mode asks for before run starts
Init == Constructed /\ manual_mode \in BOOLEAN /\ player_blacklist = {} /\ poll_pc = "tick" /\ doc_lines = <<>>

Poll ==
    /\ ListenerPoll(Snapshots, MaxTicks)
    /\ UNCHANGED <<chan_vars, fwd_vars, orch_vars, display_player, lookup_vars, player_blacklist, poll_pc,
                   dist_logs>>
    /\ Observe
Send ==
    /\ ListenerSend
    /\ UNCHANGED <<player_states, active_player_name, snapshot, ticks,
                   lyrics_queue, display_queue, closed_vars, fwd_vars, orch_vars,
                   display_player, lookup_vars, player_blacklist, poll_pc, dist_logs>>
    /\ Observe
ForwardRecv ==
    /\ FwdRecv
    /\ UNCHANGED <<listener_vars, lyrics_queue, display_queue, closed_vars, orch_vars,
                   display_player, lookup_vars, player_blacklist, poll_pc, dist_logs>>
    /\ Observe
ForwardLyrics ==
    /\ FwdSendLyrics
    /\ UNCHANGED <<listener_vars, mpris_events, display_queue, closed_vars, orch_vars,
                   display_player, lookup_vars, player_blacklist, poll_pc, dist_logs>>
    /\ Observe
ForwardDisplay ==
    /\ FwdSendDisplay
    /\ UNCHANGED <<listener_vars, mpris_events, lyrics_queue, closed_vars, orch_vars,
                   display_player, lookup_vars, player_blacklist, poll_pc, dist_logs>>
    /\ Observe

run_frame == <<listener_vars, mpris_events, display_queue, closed_vars, fwd_vars,
               display_player, lookup_vars, player_blacklist, poll_pc, dist_logs>>

OnTrackChanged          == RunTrackChanged /\ UNCHANGED run_frame /\ Observe
OnPlaybackStatusChanged == RunPlaybackStatusChanged /\ UNCHANGED run_frame /\ Observe
OnIgnored               == RunIgnored /\ UNCHANGED run_frame /\ Observe
OnPlayerDisappeared     == RunPlayerDisappeared /\ UNCHANGED run_frame /\ Observe
OnActivePlayerChanged   == RunActivePlayerChanged /\ UNCHANGED run_frame /\ Observe
TrackClear      == AwaitedClear /\ UNCHANGED run_frame /\ Observe
TrackFetch ==
    /\ \E outcome \in [Providers -> Outcomes] : AwaitedFetch(outcome)
    /\ UNCHANGED run_frame
    /\ Observe
TrackStore      == AwaitedStore /\ UNCHANGED run_frame /\ Observe
RetriggerBegin  == SpawnedBegin /\ UNCHANGED run_frame /\ Observe
RetriggerClear  == SpawnedClear /\ UNCHANGED run_frame /\ Observe
RetriggerFetch ==
    /\ \E outcome \in [Providers -> Outcomes] : SpawnedFetch(outcome)
    /\ UNCHANGED run_frame
    /\ Observe
RetriggerStore  == SpawnedStore /\ UNCHANGED run_frame /\ Observe
NotifyDeliver ==
    /\ NotifySend
    /\ UNCHANGED <<listener_vars, mpris_events, lyrics_queue, closed_vars, fwd_vars,
                   player_status, current_track, current_lyrics, current_player, manual_mode,
                   last_position_update, run_task, spawned_tasks,
                   display_player, lookup_vars, player_blacklist, poll_pc, dist_logs>>
    /\ Observe
Display ==
    /\ DisplayRecv
    /\ UNCHANGED <<listener_vars, mpris_events, lyrics_queue, closed_vars, fwd_vars,
                   orch_vars, lookup_vars, player_blacklist, poll_pc, dist_logs>>
    /\ Observe

Next ==
    \/ Poll \/ Send
    \/ ForwardRecv \/ ForwardLyrics \/ ForwardDisplay
    \/ OnTrackChanged \/ OnPlaybackStatusChanged \/ OnIgnored
    \/ OnPlayerDisappeared \/ OnActivePlayerChanged
    \/ TrackClear \/ TrackFetch \/ TrackStore
    \/ RetriggerBegin \/ RetriggerClear \/ RetriggerFetch \/ RetriggerStore
    \/ NotifyDeliver \/ Display

Spec == Init /\ [][Next]_vars

\* every event polled so far has been handled to the end: nothing is queued,
\* in hand, being looked up or waiting to be sent
PipelineQuiet ==
    /\ events_to_send = <<>> /\ mpris_events = <<>> /\ fwd_pc = "recv"
    /\ lyrics_queue = <<>> /\ display_queue = <<>>
    /\ run_task = None /\ spawned_tasks = EmptyBag /\ notify_tasks = EmptyBag

\* the poll that finds no player after A, playing and active, was the only one
OnlyPlayerVanishes ==
    /\ ticks' # ticks
    /\ DOMAIN snapshot = {"A"} /\ snapshot["A"].playback_status = Some(Playing)
    /\ active_player_name = Some("A")
    /\ DOMAIN snapshot' = {}
\* the state the listener is in from that poll to the next one: its cache
\* still holds A, the last snapshot is empty
OnlyPlayerVanished ==
    /\ DOMAIN snapshot = {} /\ ticks > 0
    /\ DOMAIN player_states = {"A"}
    /\ player_states["A"].playback_status = Some(Playing)

\* C2: when the only visible player A, playing and active, is absent from the
\* next (empty) snapshot, that poll emits PlayerDisappeared(A) and clears the
\* active pointer, and once the poll's events are handled the lyrics manager
\* holds no lyrics for A.
C2_OnlyPlayerVanishes ==
    /\ [][OnlyPlayerVanishes =>
            /\ \E i \in 1..Len(events_to_send') :
                  /\ events_to_send'[i].type = "PlayerDisappeared"
                  /\ events_to_send'[i].player_name = "A"
            /\ active_player_name' = None]_vars
    /\ []((OnlyPlayerVanished /\ PipelineQuiet) => "A" \notin DOMAIN current_lyrics)

\* C3: when TrackChanged(P, T1) is followed by TrackChanged(P, T2) while a
\* lookup for T1 is in flight (the one run awaits, or one re-triggered by
\* ActivePlayerChanged), then once all lookups have ended the document cached
\* for P is T2's or there is none.
C3_LastTrackWins ==
    PipelineQuiet =>
       \A p \in DOMAIN current_lyrics \cap DOMAIN requested :
          current_lyrics[p].title = requested[p].title

\* The program polling only what the switch from A to B is made of: A alone
\* and playing, or A paused next to B playing
SwitchSnapshots ==
    {s \in Snapshots :
        \/ DOMAIN s = {"A"} /\ s["A"] = PlayerState(Some(Song1), Some(Playing), 0)
        \/ DOMAIN s = {"A", "B"} /\ s["A"] = PlayerState(Some(Song1), Some(Paused), 0)}

PollSwitch ==
    /\ ListenerPoll(SwitchSnapshots, MaxTicks)
    /\ UNCHANGED <<chan_vars, fwd_vars, orch_vars, display_player, lookup_vars, player_blacklist, poll_pc,
                   dist_logs>>
    /\ Observe

SwitchNext ==
    \/ PollSwitch \/ Send
    \/ ForwardRecv \/ ForwardLyrics \/ ForwardDisplay
    \/ OnTrackChanged \/ OnPlaybackStatusChanged \/ OnIgnored
    \/ OnPlayerDisappeared \/ OnActivePlayerChanged
    \/ TrackClear \/ TrackFetch \/ TrackStore
    \/ RetriggerBegin \/ RetriggerClear \/ RetriggerFetch \/ RetriggerStore
    \/ NotifyDeliver \/ Display

SpecSwitch == Init /\ [][SwitchNext]_vars

ApcFor(t) == SelectSeq(apc_log, LAMBDA a : a[1] = t)

\* C13: each consumer receives a player's events in the order in which they
\* were produced, the ActivePlayerChanged events of the lyrics manager's
\* back-channel included: an event put into the display queue was not
\* produced before a poll whose events for the same player are already there.
C13_PerPlayerOrder ==
    [][Len(display_queue') > Len(display_queue) =>
         LET e == display_queue'[Len(display_queue')]
         IN e.player_name \in DOMAIN display_seen =>
               e.born >= display_seen[e.player_name]]_vars

\* C4: from {A: Playing} with A active, the poll that finds {A: Paused,
\* B: Playing} gives rise to exactly one ActivePlayerChanged event, naming B:
\* never more than one, none for another player, and one once the poll's
\* events are handled.
C4_OneSwitch ==
    \A t \in tick_log :
       /\ Len(ApcFor(t)) <= 1
       /\ \A i \in 1..Len(ApcFor(t)) : ApcFor(t)[i][2] = "B"
       /\ (PipelineQuiet /\ ticks = t) => Len(ApcFor(t)) = 1

\* the switch from A to B has been polled, announced once and delivered
C4_Witness ==
    /\ PipelineQuiet
    /\ \E t \in tick_log : ticks = t /\ ApcFor(t) = << <<t, "B">> >>
    /\ current_player = Some("B") /\ display_player = Some("B")

\* C5: the lyrics cache holds no entry for a player absent from the most
\* recent snapshot (once that poll's events are handled), and a lookup that
\* ends after PlayerDisappeared(P) was handled does not create an entry for P
\* again: an entry exists only for a player whose track change was handled
\* since it last disappeared.
C5_CacheWithinSnapshot ==
    /\ PipelineQuiet => DOMAIN current_lyrics \subseteq DOMAIN snapshot
    /\ DOMAIN current_lyrics \subseteq DOMAIN requested

\* the players of a snapshot that report the given status
WithStatus(states, status) ==
    {p \in DOMAIN states : states[p].playback_status = Some(status)}

\* the pointers the selection priority allows for a snapshot: a playing
\* player, else a paused one, else any visible one, else none
Preferred(states) ==
    IF WithStatus(states, Playing) # {} THEN {Some(p) : p \in WithStatus(states, Playing)}
    ELSE IF WithStatus(states, Paused) # {} THEN {Some(p) : p \in WithStatus(states, Paused)}
    ELSE IF DOMAIN states # {} THEN {Some(p) : p \in DOMAIN states}
    ELSE {None}

\* C17: in automatic mode, once every event of a poll has been handled, the
\* lyrics manager's current player is a Playing player of the snapshot if
\* there is one, else a Paused one, else some visible player, else none.
C17_ActiveByPriority ==
    (~manual_mode /\ ticks > 0 /\ PipelineQuiet) => current_player \in Preferred(snapshot)

\* run takes an event of one of the given types from its queue
Takes(types) ==
    /\ RunIdle /\ RunHead.type \in types
    /\ lyrics_queue' = Tail(lyrics_queue)

\* C18: in manual mode, once the current player is set, the handling of a
\* playback-status change or of a track change of any player leaves it as it
\* is (it is assigned by such an event only while it is unset).
C18_ManualKeepsPlayer ==
    [][(manual_mode /\ IsSome(current_player)
          /\ Takes({"PlaybackStatusChanged", "TrackChanged"}))
         => current_player' = current_player]_vars

\* the map m without its entry for p
Without(m, p) == [q \in DOMAIN m \ {p} |-> m[q]]

\* C19: after PlayerDisappeared(P) is handled the lyrics manager holds no
\* document, no track, no status and no position-recency record for P, the
\* entries of every other player are what they were, and the current player,
\* if it was P, is cleared.
C19_Purged ==
    [][Takes({"PlayerDisappeared"}) =>
         LET p == RunHead.player_name
         IN /\ current_lyrics' = Without(current_lyrics, p)
            /\ current_track' = Without(current_track, p)
            /\ player_status' = Without(player_status, p)
            /\ last_position_update' = last_position_update \ {p}
            /\ current_player' = IF current_player = Some(p) THEN None
                                 ELSE current_player]_vars

----------------------------------------------------------------------------
\* The polling task taken alone, with every playback status a player can
\* report; its events are taken from the channel as forward_events does

ListenerInit == Constructed /\ manual_mode = FALSE /\ player_blacklist = {} /\ poll_pc = "tick" /\ doc_lines = <<>>

\* mpris_events.recv().await
EventsRecv ==
    /\ mpris_events # <<>>
    /\ mpris_events' = Tail(mpris_events)

listener_frame == <<lyrics_queue, display_queue, closed_vars, fwd_vars, orch_vars,
                    display_player, lookup_vars, player_blacklist, poll_pc, hist_vars>>

ListenerTick ==
    /\ ListenerPoll(AllSnapshots, MaxPolls)
    /\ UNCHANGED <<mpris_events, listener_frame>>
ListenerEmit ==
    /\ ListenerSend
    /\ UNCHANGED <<player_states, active_player_name, snapshot, ticks, listener_frame>>
ListenerDrain ==
    /\ EventsRecv
    /\ UNCHANGED <<listener_vars, listener_frame>>

ListenerNext == ListenerTick \/ ListenerEmit \/ ListenerDrain

SpecListener == ListenerInit /\ [][ListenerNext]_vars

\* C1: after every poll, the arbiter's active pointer is unset or names a
\* player of the snapshot that poll fetched.
C1_ActiveInSnapshot ==
    IsSome(active_player_name) => Unwrap(active_player_name) \in DOMAIN snapshot

HasEvent(events, type) == \E i \in 1..Len(events) : events[i].type = type

\* a poll in which one player disappeared and the pointer was set anew
C1_Witness ==
    /\ HasEvent(events_to_send, "PlayerDisappeared")
    /\ HasEvent(events_to_send, "ActivePlayerChanged")
    /\ IsSome(active_player_name)
    /\ Len(events_to_send) >= 2 /\ events_to_send[1].tick >= 2

----------------------------------------------------------------------------
\* The polling task with a configured blacklist.  A string is a sequence of
\* characters; the desktop runs three players

Chars == {"a", "A", "B"}
Strings(n) == UNION {[1..k -> Chars] : k \in 0..n}

\* str::to_lowercase
to_lowercase(text) ==
    [i \in 1..Len(text) |-> IF text[i] = "A" THEN "a" ELSE IF text[i] = "B" THEN "b" ELSE text[i]]

\* str::contains(pattern)
contains(text, pattern) ==
    \E k \in 0..(Len(text) - Len(pattern)) : SubSeq(text, k + 1, k + Len(pattern)) = pattern

\* a blacklist test that lower-cases the pattern only
is_blacklisted_as_typed(identity, desktop_entry, blacklist) ==
    \E pattern \in blacklist :
       \/ contains(identity, to_lowercase(pattern))
       \/ contains(desktop_entry, to_lowercase(pattern))

is_blacklisted(identity, desktop_entry, blacklist) ==
    \E pattern \in blacklist :
       \/ contains(to_lowercase(identity), to_lowercase(pattern))
       \/ contains(to_lowercase(desktop_entry), to_lowercase(pattern))

\* what PlayerFinder::find_all can list: identity and desktop entry ("" when
\* the player gives none)
Desktop ==
    {[identity |-> <<"A", "b">>, desktop_entry |-> <<>>],
     [identity |-> <<"b", "A">>, desktop_entry |-> <<"a", "B">>],
     [identity |-> <<"B">>, desktop_entry |-> <<"B", "B">>]}

\* fetch_current_player_states: the snapshots it can return when find_all
\* lists `found`; a blacklisted player is skipped
fetch_current_player_states(found, blacklist) ==
    LET kept == {p.identity : p \in {q \in found :
                    ~is_blacklisted(q.identity, q.desktop_entry, blacklist)}}
    IN [kept -> {PlayerState(Some(Song1), Some(Playing), 0)}]

BlacklistInit ==
    /\ Constructed /\ manual_mode = FALSE /\ doc_lines = <<>>
    /\ player_blacklist \in {{}} \cup {{pattern} : pattern \in Strings(MaxPattern)}
    /\ poll_pc = "tick"

BlacklistTick ==
    /\ \E found \in SUBSET Desktop :
         ListenerPoll(fetch_current_player_states(found, player_blacklist), MaxTicks)
    /\ UNCHANGED <<mpris_events, listener_frame>>

BlacklistNext == BlacklistTick \/ ListenerEmit \/ ListenerDrain

SpecBlacklist == BlacklistInit /\ [][BlacklistNext]_vars

\* some pattern occurs in the text, letter case apart
Matches(text, blacklist) ==
    \E pattern \in blacklist :
      \E k \in 0..(Len(text) - Len(pattern)) :
        \A j \in 1..Len(pattern) :
           to_lowercase(<<text[k + j]>>) = to_lowercase(<<pattern[j]>>)

Banned == {p.identity : p \in {q \in Desktop :
              Matches(q.identity, player_blacklist) \/ Matches(q.desktop_entry, player_blacklist)}}

\* C21: a player whose identity or desktop entry contains a blacklist
\* pattern, letter case apart, is in no snapshot and in no cached state, no
\* event carries its identity and it is never the active player.
C21_BlacklistedExcluded ==
    \A identity \in Banned :
       /\ identity \notin DOMAIN snapshot /\ identity \notin DOMAIN player_states
       /\ active_player_name # Some(identity)
       /\ \A i \in 1..Len(events_to_send) :
             events_to_send[i].type # "NoPlayersAvailable"
                => events_to_send[i].player_name # identity
       /\ \A i \in 1..Len(mpris_events) :
             mpris_events[i].type # "NoPlayersAvailable"
                => mpris_events[i].player_name # identity

\* the pattern "aB" bans two players, one by its identity "Ab" and one by
\* its desktop entry; the third player is visible and active
C21_Witness ==
    /\ player_blacklist = {<<"a", "B">>}
    /\ Banned = {<<"A", "b">>, <<"b", "A">>}
    /\ DOMAIN snapshot = {<<"B">>} /\ active_player_name = Some(<<"B">>)
    /\ ticks = MaxTicks

----------------------------------------------------------------------------
\* The loop of start_polling_task with polls that fail: a poll returns Err
\* when fetch_current_player_states does (PlayerFinder::new, or the blocking
\* task), before it touched any state

\* a loop that ends at the first Err
PollFailsAndEnds ==
    /\ poll_pc \in {"tick", "retry"} /\ events_to_send = <<>>
    /\ poll_pc' = "ended"

\* the poll returns Err: error!(...), then time::sleep(5 s)
PollFails ==
    /\ poll_pc \in {"tick", "retry"} /\ events_to_send = <<>>
    /\ poll_pc' = "backoff"

\* the sleep is over, the loop is back at interval.tick()
BackoffOver ==
    /\ poll_pc = "backoff"
    /\ poll_pc' = "retry"

retry_frame == <<lyrics_queue, display_queue, closed_vars, fwd_vars, orch_vars,
                 display_player, lookup_vars, player_blacklist, hist_vars>>

RetryTick ==
    /\ poll_pc \in {"tick", "retry"}
    /\ ListenerPoll(Snapshots, MaxTicks)
    /\ poll_pc' = "tick"
    /\ UNCHANGED <<mpris_events, retry_frame>>
RetryFail ==
    /\ PollFails
    /\ UNCHANGED <<listener_vars, mpris_events, retry_frame>>
RetryResume ==
    /\ BackoffOver
    /\ UNCHANGED <<listener_vars, mpris_events, retry_frame>>

RetryNext == RetryTick \/ RetryFail \/ RetryResume \/ ListenerEmit \/ ListenerDrain

\* the sleep ends, a send into a channel with room completes, the forwarder
\* takes what is in the channel; whether a poll fails is up to the session bus
SpecRetry ==
    /\ ListenerInit /\ [][RetryNext]_vars
    /\ WF_vars(RetryResume) /\ WF_vars(ListenerEmit) /\ WF_vars(ListenerDrain)

\* C22: a failed poll never ends the polling task and changes nothing of the
\* listener's state; after the backoff the task is ready to poll again, and
\* the events of every poll that succeeds are all sent.
C22_FailureRetried ==
    /\ [](poll_pc # "ended")
    /\ [][poll_pc' = "backoff" => UNCHANGED <<player_states, active_player_name>>]_vars
    /\ (poll_pc = "backoff") ~> (poll_pc = "retry")
    /\ (events_to_send # <<>>) ~> (events_to_send = <<>> /\ mpris_events = <<>>)

\* a poll found a player and its events went out, the next poll failed, and
\* the backoff is over
C22_Witness ==
    /\ poll_pc = "retry" /\ ticks = 1
    /\ DOMAIN player_states # {}
    /\ events_to_send = <<>> /\ mpris_events = <<>>

----------------------------------------------------------------------------
\* forward_events taken alone: the polling task sends a batch of MaxFeed
\* events, the two consumers take from their queues or go away

FeedEvents == {PositionChanged("A"), TrackChanged("A", Song1),
               ActivePlayerChanged("A", Playing)}

\* the polling task is about to send a batch drawn from `events`
BatchInit(events, display_gone) ==
    /\ manual_mode = FALSE /\ doc_lines = <<>> /\ player_blacklist = {} /\ poll_pc = "tick"
    /\ player_states = EmptyMap /\ active_player_name = None /\ snapshot = EmptyMap
    /\ events_to_send \in [1..MaxFeed -> events] /\ ticks = 1
    /\ mpris_events = <<>> /\ lyrics_queue = <<>> /\ display_queue = <<>>
    /\ lyrics_closed = FALSE /\ display_closed = display_gone
    /\ fwd_pc = "recv" /\ fwd_event = None
    /\ player_status = EmptyMap /\ current_track = EmptyMap /\ current_lyrics = EmptyMap
    /\ current_player = None /\ last_position_update = {}
    /\ run_task = None /\ spawned_tasks = EmptyBag /\ notify_tasks = EmptyBag
    /\ display_player = None
    /\ query_ms = None /\ query_result = None /\ lrc_content = <<>> /\ switch_call = None
    /\ song_search = None /\ compared = None
    /\ mutex_owner = [m \in Mutexes |-> None] /\ lock_script = [t \in Threads |-> <<>>]
    /\ tick_log = {} /\ apc_log = <<>>
    /\ recv_log = <<>> /\ lyrics_log = <<>> /\ display_log = <<>>
    /\ requested = EmptyMap /\ fetch_log = None /\ display_seen = EmptyMap

DistInit == BatchInit(FeedEvents, FALSE)

\* LyricsManager::run takes the next event: rx.recv().await
LyricsRecv ==
    /\ lyrics_queue # <<>>
    /\ lyrics_queue' = Tail(lyrics_queue)

\* a consumer ends and its receiver is dropped with what it still held
LyricsGone ==
    /\ ~lyrics_closed
    /\ lyrics_closed' = TRUE
    /\ lyrics_queue' = <<>>
DisplayGone ==
    /\ ~display_closed
    /\ display_closed' = TRUE
    /\ display_queue' = <<>>

Last(q) == q[Len(q)]
AllButLast(q) == SubSeq(q, 1, Len(q) - 1)

\* what forward_events received and what it put into each queue
Distributed ==
    /\ recv_log' = IF IsSome(fwd_event') /\ ~IsSome(fwd_event)
                   THEN Append(recv_log, Unwrap(fwd_event')) ELSE recv_log
    /\ lyrics_log' = IF Len(lyrics_queue') > Len(lyrics_queue)
                     THEN Append(lyrics_log, Last(lyrics_queue')) ELSE lyrics_log
    /\ display_log' = IF Len(display_queue') > Len(display_queue)
                      THEN Append(display_log, Last(display_queue')) ELSE display_log

dist_frame == <<player_states, active_player_name, snapshot, ticks, orch_vars,
                lookup_vars, player_blacklist, poll_pc, tick_log, apc_log, requested, fetch_log, display_seen>>

DistSend ==
    /\ ListenerSend
    /\ UNCHANGED <<dist_frame, lyrics_queue, display_queue, closed_vars, fwd_vars,
                   display_player>>
    /\ Distributed
DistForwardRecv ==
    /\ FwdRecv
    /\ UNCHANGED <<dist_frame, events_to_send, lyrics_queue, display_queue, closed_vars,
                   display_player>>
    /\ Distributed
DistForwardLyrics ==
    /\ FwdSendLyrics
    /\ UNCHANGED <<dist_frame, events_to_send, mpris_events, display_queue, closed_vars,
                   display_player>>
    /\ Distributed
DistForwardDisplay ==
    /\ FwdSendDisplay
    /\ UNCHANGED <<dist_frame, events_to_send, mpris_events, lyrics_queue, closed_vars,
                   display_player>>
    /\ Distributed
DistLyricsRecv ==
    /\ LyricsRecv
    /\ UNCHANGED <<dist_frame, events_to_send, mpris_events, display_queue, closed_vars,
                   fwd_vars, display_player>>
    /\ Distributed
DistDisplayRecv ==
    /\ DisplayRecv
    /\ UNCHANGED <<dist_frame, events_to_send, mpris_events, lyrics_queue, closed_vars,
                   fwd_vars>>
    /\ Distributed
DistLyricsGone ==
    /\ LyricsGone
    /\ UNCHANGED <<dist_frame, events_to_send, mpris_events, display_queue, display_closed,
                   fwd_vars, display_player>>
    /\ Distributed
DistDisplayGone ==
    /\ DisplayGone
    /\ UNCHANGED <<dist_frame, events_to_send, mpris_events, lyrics_queue, lyrics_closed,
                   fwd_vars, display_player>>
    /\ Distributed

DistNext ==
    \/ DistSend \/ DistForwardRecv \/ DistForwardLyrics \/ DistForwardDisplay
    \/ DistLyricsRecv \/ DistDisplayRecv \/ DistLyricsGone \/ DistDisplayGone

SpecDist == DistInit /\ [][DistNext]_vars

\* the tasks are scheduled by the tokio runtime: the polling task, the
\* forwarder and the rendering consumer take every step they can; nothing is
\* assumed of the lyrics consumer, which may stall
SpecDistFair ==
    /\ DistInit /\ [][DistNext]_vars
    /\ WF_vars(DistSend) /\ WF_vars(DistForwardRecv)
    /\ WF_vars(DistForwardLyrics) /\ WF_vars(DistForwardDisplay)
    /\ WF_vars(DistDisplayRecv)

\* the same with both consumers taking what is in their queues as long as
\* they live
SpecDistLive ==
    /\ DistInit /\ [][DistNext]_vars
    /\ WF_vars(DistSend) /\ WF_vars(DistForwardRecv)
    /\ WF_vars(DistForwardLyrics) /\ WF_vars(DistForwardDisplay)
    /\ WF_vars(DistDisplayRecv) /\ WF_vars(DistLyricsRecv)

ForLyrics(events) == SelectSeq(events, LAMBDA e : e.type # "PositionChanged")

BatchForwarded == Len(recv_log) = MaxFeed /\ fwd_pc = "recv"

Positions(events) == SelectSeq(events, LAMBDA e : e.type = "PositionChanged")

\* C12: no PositionChanged is ever put into the lyrics queue (the only input
\* of LyricsManager::run, so none reaches its state or starts a lookup); each
\* PositionChanged received goes to the display queue while that consumer
\* lives.
C12_PositionToDisplayOnly ==
    /\ Positions(lyrics_queue) = <<>> /\ Positions(lyrics_log) = <<>>
    /\ ~display_closed =>
          Positions(display_log) =
             Positions(IF fwd_pc \in {"lyrics", "display"}
                       THEN AllButLast(recv_log) ELSE recv_log)

\* a PositionChanged went to the display queue between two events that went
\* to both queues
C12_Witness ==
    /\ ~lyrics_closed /\ ~display_closed /\ BatchForwarded
    /\ recv_log[2].type = "PositionChanged" /\ display_log = recv_log
    /\ Len(lyrics_log) = MaxFeed - 1

\* C11: once one consumer's queue is closed, forward_events keeps running and
\* the whole batch still reaches the other consumer's queue, in the order
\* received, for as long as that consumer lives.
C11_OtherStillServed ==
    /\ [](lyrics_closed =>
            <>(display_closed \/ (BatchForwarded /\ display_log = recv_log)))
    /\ [](display_closed =>
            <>(lyrics_closed \/ (BatchForwarded /\ lyrics_log = ForLyrics(recv_log))))

\* the lyrics consumer went away before the batch was through, and the
\* rendering consumer got all of it
C11_Witness ==
    /\ lyrics_closed /\ ~display_closed
    /\ Len(lyrics_log) < Len(ForLyrics(recv_log))
    /\ BatchForwarded /\ display_log = recv_log

\* C9: a stalled lyrics consumer (its queue full) does not keep events from
\* the rendering consumer: every event forward_events has received is
\* eventually put into the display queue (unless that consumer is gone).
C9_NoStall ==
    \A k \in 1..MaxFeed :
       [](Len(recv_log) >= k => <>(display_closed \/ Len(display_log) >= k))

\* C10: forward_events never drops an event for a live consumer and keeps the
\* order: while a consumer lives, what was put into its queue is exactly the
\* events received so far that are meant for it, in the order received (the
\* event in hand counts once its send has returned).
C10_NoDrop ==
    LET sent_lyrics  == IF fwd_pc = "lyrics" THEN AllButLast(recv_log) ELSE recv_log
        sent_display == IF fwd_pc \in {"lyrics", "display"}
                        THEN AllButLast(recv_log) ELSE recv_log
    IN /\ ~lyrics_closed => lyrics_log = ForLyrics(sent_lyrics)
       /\ ~display_closed => display_log = sent_display
       /\ Len(lyrics_queue) <= ChanCap /\ Len(display_queue) <= ChanCap

\* the whole batch, longer than a queue, has reached both live consumers'
\* queues although the forwarder had to wait for room
C10_Witness ==
    /\ ~lyrics_closed /\ ~display_closed
    /\ Len(recv_log) = MaxFeed /\ fwd_pc = "recv"
    /\ Len(display_log) = MaxFeed /\ Len(lyrics_log) = MaxFeed
    /\ MaxFeed > ChanCap

----------------------------------------------------------------------------
\* The lyrics manager's lookups, with the outcome of every provider call on
\* record: a batch of track changes and re-triggers goes through the
\* forwarder to LyricsManager::run; the rendering consumer has ended

FetchEvents == {TrackChanged("A", Song1), ActivePlayerChanged("A", Playing)}

FetchInit == BatchInit(FetchEvents, TRUE)

fetch_frame == <<listener_vars, mpris_events, display_queue, closed_vars, fwd_vars,
                 display_player, lookup_vars, player_blacklist, poll_pc, tick_log, apc_log, requested,
                 recv_log, lyrics_log, display_log, display_seen>>

\* the record of one fetch_lyrics_from_providers call, from the task it ran in
Fetched(task, outcome) ==
    fetch_log' = Some([track |-> task.track_info, outcome |-> outcome,
                       calls |-> task.calls, result |-> task.result])

FetchOnTrackChanged == RunTrackChanged /\ UNCHANGED <<fetch_frame, fetch_log>>
FetchOnActivePlayerChanged == RunActivePlayerChanged /\ UNCHANGED <<fetch_frame, fetch_log>>
FetchTrackClear == AwaitedClear /\ UNCHANGED <<fetch_frame, fetch_log>>
FetchTrackFetch ==
    \E outcome \in [Providers -> Outcomes] :
      /\ AwaitedFetch(outcome)
      /\ UNCHANGED fetch_frame
      /\ Fetched(Unwrap(run_task'), outcome)
FetchTrackStore == AwaitedStore /\ UNCHANGED <<fetch_frame, fetch_log>>
FetchRetriggerBegin == SpawnedBegin /\ UNCHANGED <<fetch_frame, fetch_log>>
FetchRetriggerClear == SpawnedClear /\ UNCHANGED <<fetch_frame, fetch_log>>
FetchRetriggerFetch ==
    \E outcome \in [Providers -> Outcomes] :
      /\ SpawnedFetch(outcome)
      /\ UNCHANGED fetch_frame
      /\ \E task \in BagToSet(spawned_tasks' (-) spawned_tasks) : Fetched(task, outcome)
FetchRetriggerStore == SpawnedStore /\ UNCHANGED <<fetch_frame, fetch_log>>

FetchNext ==
    \/ DistSend \/ DistForwardRecv \/ DistForwardLyrics \/ DistForwardDisplay
    \/ FetchOnTrackChanged \/ FetchOnActivePlayerChanged
    \/ FetchTrackClear \/ FetchTrackFetch \/ FetchTrackStore
    \/ FetchRetriggerBegin \/ FetchRetriggerClear \/ FetchRetriggerFetch
    \/ FetchRetriggerStore

SpecFetch == FetchInit /\ [][FetchNext]_vars

\* the first provider, in priority order, that has a document; NumProviders + 1
\* when none has
FirstFound(outcome) ==
    IF \E p \in Providers : outcome[p] = "found"
    THEN CHOOSE p \in Providers :
           outcome[p] = "found" /\ \A q \in 1..(p - 1) : outcome[q] # "found"
    ELSE NumProviders + 1

\* a step in which `task` stores its result and ends
Stores(task) ==
    /\ task.pc = "store"
    /\ \/ run_task = Some(task) /\ run_task' = None
       \/ BagIn(task, spawned_tasks)
            /\ spawned_tasks' = spawned_tasks (-) SetToBag({task})
AllTasks == BagToSet(spawned_tasks) \cup run_task

\* C6: for one lookup the providers are called strictly in priority order,
\* each at most once, up to and including the first that has a document;
\* that document is the result and is what the lookup caches; when no
\* provider has one, all were called and nothing is cached.
C6_PriorityOrder ==
    /\ [](\A f \in fetch_log :
            LET k == FirstFound(f.outcome)
            IN IF k <= NumProviders
               THEN /\ f.calls = [j \in 1..k |-> j]
                    /\ f.result = Some(Lyrics(f.track, k))
               ELSE /\ f.calls = [j \in 1..NumProviders |-> j]
                    /\ f.result = None)
    /\ [][\A task \in AllTasks :
            Stores(task) =>
              IF IsSome(task.result)
              THEN /\ task.player_name \in DOMAIN current_lyrics'
                   /\ current_lyrics'[task.player_name] = Unwrap(task.result)
              ELSE current_lyrics' = current_lyrics]_vars

\* the first provider failed, the second had the document, and the document
\* of the second is the one cached
C6_Witness ==
    /\ \E f \in fetch_log :
         /\ f.outcome[1] = "err" /\ f.outcome[NumProviders] = "found"
         /\ f.calls = [j \in 1..NumProviders |-> j]
    /\ "A" \in DOMAIN current_lyrics /\ current_lyrics["A"].source = NumProviders
    /\ run_task = None /\ spawned_tasks = EmptyBag

\* no provider had a document for the fetch f
AllFailed(f) == \A p \in Providers : f.outcome[p] # "found"

\* C16: a provider that returns an error is skipped and the next one is
\* tried; when every provider fails or has no match the lookup has no result,
\* it writes nothing into the cache, handle_track_changed returns and the
\* event loop is free to take the next event.
C16_ErrorsSkipped ==
    /\ [](\A f \in fetch_log :
            /\ \A p \in 1..(NumProviders - 1) :
                  (f.outcome[p] = "err" /\ \E i \in 1..Len(f.calls) : f.calls[i] = p)
                     => \E i \in 1..Len(f.calls) : f.calls[i] = p + 1
            /\ AllFailed(f) => f.result = None /\ Len(f.calls) = NumProviders)
    /\ [][/\ \A task \in BagToSet(spawned_tasks) :
               (Stores(task) /\ ~IsSome(task.result)) => current_lyrics' = current_lyrics
          /\ \A task \in run_task :
               (task.pc = "store" /\ ~IsSome(task.result) /\ run_task' # run_task) =>
                  /\ current_lyrics' = current_lyrics
                  /\ run_task' = None]_vars

\* the only lookup so far met an error and found nothing; the cache is empty
\* for A and run went on to handle the ActivePlayerChanged that followed
C16_Witness ==
    /\ \E f \in fetch_log : AllFailed(f) /\ f.outcome[1] = "err"
    /\ Len(lyrics_log) = 2 /\ lyrics_queue = <<>>
    /\ lyrics_log[1].type = "TrackChanged" /\ lyrics_log[2].type = "ActivePlayerChanged"
    /\ run_task = None /\ current_player = Some("A")
    /\ \E task \in BagToSet(spawned_tasks) : task.pc = "begin"
    /\ "A" \notin DOMAIN current_lyrics

----------------------------------------------------------------------------
\* LyricsManager::run fed with the track changes of one player, a track
\* without a title among them, and with re-triggers; the rendering consumer
\* has ended

\* a track whose player reports an empty xesam:title
Untitled == TrackInfo(3, "", "X")

TrackFeed == {TrackChanged("A", Song1), TrackChanged("A", Song2),
              TrackChanged("A", Untitled), ActivePlayerChanged("A", Playing)}

TrackInit == BatchInit(TrackFeed, TRUE)

TrackNext ==
    \/ Send \/ ForwardRecv \/ ForwardLyrics \/ ForwardDisplay
    \/ OnTrackChanged \/ OnActivePlayerChanged
    \/ TrackClear \/ TrackFetch \/ TrackStore
    \/ RetriggerBegin \/ RetriggerClear \/ RetriggerFetch \/ RetriggerStore

SpecTrack == TrackInit /\ [][TrackNext]_vars

\* run takes TrackChanged(name, track) from its queue and calls
\* handle_track_changed
Handles(name, track) ==
    /\ RunIdle /\ RunHead.type = "TrackChanged"
    /\ RunHead.player_name = name /\ RunHead.track_info = Some(track)
    /\ lyrics_queue' = Tail(lyrics_queue)

\* C14: handling TrackChanged(P, T) with an empty T.title starts no lookup
\* (no provider is invoked) and leaves the cache without a document for P,
\* also when a document for P's previous track was cached.
C14_EmptyTitleClears ==
    [][Handles("A", Untitled) =>
         /\ run_task' = None
         /\ "A" \notin DOMAIN current_lyrics']_vars

\* the handler run awaits has recorded the track and not yet removed the
\* player's previous document (between its first two lock sections)
Recording(p) ==
    \E task \in run_task : task.player_name = p /\ task.pc = "clear"

\* C15: from the handling of TrackChanged(P, T) with a non-empty title until
\* the next TrackChanged for P, the cache never holds for P a document that
\* was fetched for another track: the previous entry is removed before any
\* provider is invoked and the entry stays absent until T's own result is
\* written.
C15_NoForeignDocument ==
    \A p \in DOMAIN current_lyrics \cap DOMAIN requested :
       (requested[p].title # "" /\ ~Recording(p)) =>
          current_lyrics[p].title = requested[p].title

\* the lookup started by a TrackChanged is in flight: its handler is between
\* removing the old entry and getting the providers' answer
LookupInFlight ==
    \E task \in run_task : task.pc = "fetch"

\* C20: a lookup started by a TrackChanged does not block the event loop:
\* while it is in flight, run can take the next TrackChanged waiting in its
\* queue.
C20_LoopNotBlocked ==
    (LookupInFlight /\ lyrics_queue # <<>> /\ RunHead.type = "TrackChanged")
       => ENABLED OnTrackChanged

----------------------------------------------------------------------------
\* get_lyric_at_time taken alone: a document a provider built is current and
\* the renderer asks for the line at arbitrary times

LookupInit == Constructed /\ manual_mode = FALSE /\ player_blacklist = {} /\ poll_pc = "tick" /\ doc_lines \in Documents

LookupLine ==
    /\ Lookup
    /\ UNCHANGED <<listener_vars, chan_vars, fwd_vars, orch_vars, display_player, hist_vars,
                   player_blacklist, poll_pc>>

LookupNext == LookupLine

SpecLookup == LookupInit /\ [][LookupNext]_vars

StartOf(i) == doc_lines[i].start_time
\* the end of line i, taken as the start of line i+1 when absent; {} for a
\* last line without end
EndOf(i) ==
    IF IsSome(doc_lines[i].end_time) THEN doc_lines[i].end_time
    ELSE IF i < Len(doc_lines) THEN Some(StartOf(i + 1)) ELSE None

\* C7: get_lyric_at_time(ms) returns the line i with start[i] <= ms < end[i];
\* the first line when ms is before the first line's start; the last line when
\* ms is at or after the last line's start.
C7_LineAtTime ==
    IsSome(query_ms) =>
        LET ms == Unwrap(query_ms)
            n  == Len(doc_lines)
            i  == Unwrap(query_result)
        IN /\ IsSome(query_result)
           /\ IF ms < StartOf(1) THEN i = 1
              ELSE IF ms >= StartOf(n) THEN i = n
              ELSE /\ StartOf(i) <= ms
                   /\ IsSome(EndOf(i)) /\ ms < Unwrap(EndOf(i))

\* a time strictly inside the document finds an inner line; another query
\* before the first line finds the first
C7_Witness ==
    /\ Len(doc_lines) = 3 /\ StartOf(1) < StartOf(2) /\ StartOf(2) < StartOf(3)
    /\ IsSome(query_ms) /\ query_result = Some(2)
    /\ Unwrap(query_ms) > StartOf(2)

\* C8: get_lyric_at_time is monotonic in ms: of two queries on one document,
\* the one with the later time never finds an earlier line.
C8_Monotonic ==
    [][(IsSome(query_ms) /\ IsSome(query_ms') /\ Unwrap(query_ms) <= Unwrap(query_ms'))
          => Unwrap(query_result) <= Unwrap(query_result')]_vars

\* a query at or after the last line's start, on a document whose first line
\* starts after 0 (so that earlier queries fell before, inside and after)
C8_Witness ==
    /\ Len(doc_lines) = 3 /\ StartOf(1) > 0 /\ StartOf(1) < StartOf(3)
    /\ IsSome(query_ms) /\ query_result = Some(3)

----------------------------------------------------------------------------
\* A provider's search_lyrics from the LRC text it obtained to the cache: the
\* lines of the text carry a time tag and a text that may be empty

\* the lines of an LRC text: <<time, text>>, with a text or without one
LrcLines == ((0..MaxTime) \X {"la"}) \cup {<<0, "">>}

\* the LRC texts: up to MaxLines tagged lines in any order
LrcTexts == UNION {[1..n -> LrcLines] : n \in 0..MaxLines}

\* LrcParser::parse: a tagged line without text is dropped, the rest is sorted
\* by time
LrcParse(content) == sort_by_key(SelectSeq(content, LAMBDA line : line[2] # ""))

\* a provider that returns the document whatever its number of lines
search_lyrics_unchecked(content) == Some(parse_lrc(LrcParse(content)))

\* search_lyrics of the three providers once they hold the LRC text: parse,
\* build the lines, and return Ok(None) when there is no line
search_lyrics(content) ==
    LET lines == parse_lrc(LrcParse(content))
    IN IF lines = <<>> THEN None ELSE Some(lines)

\* handle_track_changed(A, track) with one provider that obtained `content`:
\* the old entry is removed, the result is inserted if there is one
CacheLookup ==
    \E track \in {Song1, Song2}, content \in LrcTexts :
       LET result == search_lyrics(content)
       IN /\ current_lyrics' = IF IsSome(result)
                                THEN Insert(current_lyrics, "A", Lyrics(track, 1))
                                ELSE Remove(current_lyrics, "A")
          /\ doc_lines' = IF IsSome(result) THEN Unwrap(result) ELSE <<>>
          /\ current_track' = Insert(current_track, "A", track)

CacheStore ==
    /\ CacheLookup
    /\ UNCHANGED <<listener_vars, chan_vars, fwd_vars, player_status, current_player,
                   manual_mode, last_position_update, run_task, spawned_tasks, notify_tasks,
                   display_player, query_ms, query_result, lrc_content, switch_call, song_search, compared, lock_vars,
                   player_blacklist,
                   poll_pc,
                   hist_vars>>

CacheNext == CacheStore

SpecCache == ListenerInit /\ [][CacheNext]_vars

\* C23: the document cached for a player has at least one line and its
\* lines are in ascending order of start_time (a provider result without
\* lines is not cached).
C23_CachedDocument ==
    "A" \in DOMAIN current_lyrics =>
       /\ Len(doc_lines) >= 1
       /\ \A i, j \in 1..Len(doc_lines) :
             i < j => doc_lines[i].start_time <= doc_lines[j].start_time

\* a document of MaxLines lines is cached, two of them with the same time
C23_Witness ==
    /\ "A" \in DOMAIN current_lyrics
    /\ Len(doc_lines) = MaxLines
    /\ doc_lines[1].start_time = doc_lines[2].start_time
    /\ doc_lines[MaxLines].start_time > doc_lines[1].start_time

----------------------------------------------------------------------------
\* The lyrics manager taken alone with position updates in its queue: the
\* queue is fed through its sender, time passes between the events

\* handle_position_update: the update is recorded; a player whose status is
\* not Playing is compared with the time just recorded (now - now < 2 s), so
\* its status is set to Playing and, in automatic mode, it becomes the
\* current player unless the current player is Playing.
\* Gives <<player_status', current_player', players notified>>
handle_position_update(name) ==
    IF name \in DOMAIN player_status /\ player_status[name] # Playing
    THEN LET status_map == Insert(player_status, name, Playing)
             should_switch ==
                 IF IsSome(current_player)
                 THEN ~(Unwrap(current_player) \in DOMAIN status_map
                        /\ status_map[Unwrap(current_player)] = Playing)
                 ELSE TRUE
         IN IF ~manual_mode /\ should_switch
            THEN <<status_map, Some(name), <<name>>>>
            ELSE <<status_map, current_player, <<>>>>
    ELSE <<player_status, current_player, <<>>>>

\* run, arm PositionChanged
RunPositionChanged ==
    /\ RunIdle /\ RunHead.type = "PositionChanged"
    /\ NotifyRoom
    /\ lyrics_queue' = Tail(lyrics_queue)
    /\ LET name == RunHead.player_name
           r == handle_position_update(name)
       IN /\ last_position_update' = last_position_update \cup {name}
          /\ player_status' = r[1]
          /\ current_player' = r[2]
          /\ notify_tasks' = Notify(r[1], r[3], RunHead.tick)
    /\ UNCHANGED <<current_track, current_lyrics, manual_mode, run_task, spawned_tasks>>

OnPositionChanged == RunPositionChanged /\ UNCHANGED run_frame /\ Observe

\* three seconds pass since the last position update of a player: the
\* comparison of select_best_player with Instant::now() no longer holds for it
WindowElapses ==
    /\ \E p \in last_position_update : last_position_update' = last_position_update \ {p}
    /\ UNCHANGED <<listener_vars, chan_vars, fwd_vars, player_status, current_track,
                   current_lyrics, current_player, manual_mode, run_task, spawned_tasks,
                   notify_tasks, display_player, lookup_vars, player_blacklist, poll_pc,
                   hist_vars>>

\* the events sent to the manager: no player ever reports Playing
RecencyEvents ==
    {PlaybackStatusChanged("A", Paused), PlaybackStatusChanged("B", Paused),
     PlaybackStatusChanged("B", Stopped), PositionChanged("A"), PositionChanged("B"),
     PlayerDisappeared("B")}

\* tx.send(event).await on the manager's queue
RecencySend ==
    /\ Len(lyrics_queue) < ChanCap
    /\ \E e \in RecencyEvents : lyrics_queue' = Append(lyrics_queue, e)
    /\ UNCHANGED <<listener_vars, mpris_events, display_queue, closed_vars, fwd_vars,
                   orch_vars, display_player, lookup_vars, player_blacklist, poll_pc,
                   hist_vars>>

RecencyNext ==
    \/ RecencySend
    \/ OnPlaybackStatusChanged \/ OnPositionChanged \/ OnPlayerDisappeared
    \/ WindowElapses
    \/ NotifyDeliver \/ Display

SpecRecency == ListenerInit /\ [][RecencyNext]_vars

----------------------------------------------------------------------------
\* utils/lrc.rs and LocalProvider::parse_lrc_file on LRC text: a line is
\* <<time tags, text>>, a time tag is <<mm, ss, digits of the fraction>>

\* the digits of the fraction read as a number of milliseconds
millis_unscaled(ms_str) ==
    IF ms_str = <<>> THEN 0
    ELSE IF Len(ms_str) = 1 THEN ms_str[1]
    ELSE IF Len(ms_str) = 2 THEN ms_str[1] * 10 + ms_str[2]
    ELSE ms_str[1] * 100 + ms_str[2] * 10 + ms_str[3]

\* the fraction of a time tag in milliseconds: one digit counts tenths, two
\* digits count hundredths, three digits count milliseconds
millis(ms_str) ==
    IF ms_str = <<>> THEN 0
    ELSE IF Len(ms_str) = 1 THEN ms_str[1] * 100
    ELSE IF Len(ms_str) = 2 THEN (ms_str[1] * 10 + ms_str[2]) * 10
    ELSE ms_str[1] * 100 + ms_str[2] * 10 + ms_str[3]

total_millis(tag) == tag[1] * 60 * 1000 + tag[2] * 1000 + millis(tag[3])

\* the time_lyrics one line contributes: one entry per time tag, none when
\* the text is empty
LineLyrics(line) ==
    IF line[2] = "" THEN <<>>
    ELSE [k \in 1..Len(line[1]) |-> <<total_millis(line[1][k]), line[2]>>]

\* the timed lines in file order
parse_unsorted(content) ==
    FlattenSeq([k \in 1..Len(content) |-> LineLyrics(content[k])])

\* LrcParser::parse: the timed lines in file order, then sorted by time
parse(content) ==
    sort_by_key(FlattenSeq([k \in 1..Len(content) |-> LineLyrics(content[k])]))

\* LocalProvider::parse_lrc_file once the file is read
parse_lrc_file(content) == parse_lrc(parse(content))

\* [00:00.00] [00:03.33] [00:05.76] [00:03.3] [01:02] [00:05.760]
TimeTags ==
    {<<0, 0, <<0, 0>>>>, <<0, 3, <<3, 3>>>>, <<0, 5, <<7, 6>>>>, <<0, 3, <<3>>>>,
     <<1, 2, <<>>>>}
Texts == {"A", "B", "C", ""}
\* lines with one tag, and the line [00:05.760][00:00.00]B
LrcFileLines ==
    {<<<<tag>>, text>> : tag \in TimeTags, text \in Texts}
       \cup {<<<<<<0, 5, <<7, 6, 0>>>>, <<0, 0, <<0, 0>>>>>>, "B">>}
LrcFiles == UNION {[1..n -> LrcFileLines] : n \in 0..MaxLines}

\* parse_lrc_file: the file is read and the document is built from it
ParseLrcFile ==
    /\ lrc_content = <<>>
    /\ \E content \in LrcFiles :
         /\ lrc_content' = content
         /\ doc_lines' = parse_lrc_file(content)
    /\ UNCHANGED <<listener_vars, chan_vars, fwd_vars, orch_vars, display_player,
                   query_ms, query_result, switch_call, song_search, compared, lock_vars, player_blacklist, poll_pc,
                   hist_vars>>

LrcNext == ParseLrcFile

SpecLrc == ListenerInit /\ [][LrcNext]_vars

\* [00:00.00]A [00:03.33]B [00:05.76]C
ExampleLrc ==
    <<<<<<<<0, 0, <<0, 0>>>>>>, "A">>, <<<<<<0, 3, <<3, 3>>>>>>, "B">>,
      <<<<<<0, 5, <<7, 6>>>>>>, "C">>>>

\* C25: in a document built from LRC text every line ends where the next
\* line starts and the last line has no end; the text [00:00.00]A
\* [00:03.33]B [00:05.76]C gives the end times 3330, 5760 and none.
C25_EndTimes ==
    /\ \A i \in 1..Len(doc_lines) :
          doc_lines[i].end_time =
             IF i < Len(doc_lines) THEN {doc_lines[i + 1].start_time} ELSE {}
    /\ lrc_content = ExampleLrc =>
          [i \in 1..Len(doc_lines) |-> doc_lines[i].end_time] = <<{3330}, {5760}, {}>>

\* the document of the example text is built
C25_Witness ==
    /\ lrc_content = ExampleLrc
    /\ [i \in 1..Len(doc_lines) |-> doc_lines[i].text] = <<"A", "B", "C">>

\* C38: the timed lines of a parsed LRC text are in ascending order of their
\* timestamps, whatever the order of the lines in the text.
C38_SortedByTime ==
    \A i, j \in 1..Len(doc_lines) :
        i < j => doc_lines[i].start_time <= doc_lines[j].start_time

\* the text [01:02]C [00:05.76]B [00:03.3]A, latest line first, is parsed
C38_Witness ==
    /\ lrc_content = <<<<<<<<1, 2, <<>>>>>>, "C">>, <<<<<<0, 5, <<7, 6>>>>>>, "B">>,
                       <<<<<<0, 3, <<3>>>>>>, "A">>>>
    /\ [i \in 1..Len(doc_lines) |-> doc_lines[i].text] = <<"A", "B", "C">>

\* the fraction digits padded with zeros on the right to three digits
Thousandths(digits) ==
    LET padded == digits \o <<0, 0, 0>>
    IN padded[1] * 100 + padded[2] * 10 + padded[3]

\* C39: every tag [mm:ss.f] of a line with text gives a timed line at
\* mm*60000 + ss*1000 + frac ms, frac being the fraction read as 1, 2 or 3
\* decimal places and 0 when it is missing; there are no other timed lines.
C39_TagMilliseconds ==
    lrc_content # <<>> =>
        {<<doc_lines[i].start_time, doc_lines[i].text>> : i \in 1..Len(doc_lines)}
          = UNION {{<<line[1][k][1] * 60000 + line[1][k][2] * 1000
                         + Thousandths(line[1][k][3]), line[2]>> : k \in 1..Len(line[1])} :
                   line \in {lrc_content[n] : n \in 1..Len(lrc_content)} \ {l \in LrcFileLines : l[2] = ""}}

\* [00:05.760][00:00.00]B, [00:03.3]A and [01:02]C: fractions of three, two
\* and one digit and a missing fraction
C39_Witness ==
    /\ lrc_content = <<<<<<<<0, 5, <<7, 6, 0>>>>, <<0, 0, <<0, 0>>>>>>, "B">>,
                       <<<<<<0, 3, <<3>>>>>>, "A">>, <<<<<<1, 2, <<>>>>>>, "C">>>>
    /\ [i \in 1..Len(doc_lines) |-> doc_lines[i].start_time] = <<0, 3300, 5760, 62000>>

----------------------------------------------------------------------------
\* The polling task and the receiver of its channel, which records what it
\* receives

PresenceRecv ==
    /\ EventsRecv
    /\ recv_log' = Append(recv_log, Head(mpris_events))
    /\ UNCHANGED <<listener_vars, lyrics_queue, display_queue, closed_vars, fwd_vars,
                   orch_vars, display_player, lookup_vars, player_blacklist, poll_pc,
                   tick_log, apc_log, lyrics_log, display_log, requested, fetch_log,
                   display_seen>>

PresenceNext == ListenerTick \/ ListenerEmit \/ PresenceRecv

SpecPresence == ListenerInit /\ [][PresenceNext]_vars

\* the players for which the last PlayerAppeared / PlayerDisappeared of the
\* sequence is a PlayerAppeared
RECURSIVE Present(_)
Present(events) ==
    IF events = <<>> THEN {}
    ELSE LET e == events[Len(events)]
             before == Present(SubSeq(events, 1, Len(events) - 1))
         IN IF e.type = "PlayerAppeared" THEN before \cup {e.player_name}
            ELSE IF e.type = "PlayerDisappeared" THEN before \ {e.player_name}
            ELSE before

\* C26: once the events of a poll are all received, the players that were
\* announced by PlayerAppeared and not since by PlayerDisappeared are the
\* players of the snapshot that poll fetched.
C26_PresenceMatchesSnapshot ==
    (ticks > 0 /\ events_to_send = <<>> /\ mpris_events = <<>>)
       => Present(recv_log) = DOMAIN snapshot

----------------------------------------------------------------------------
\* The polling task taken alone on players whose track, status and position
\* all vary from one poll to the next

\* Song1 under another track id, and Song1 by another artist under its id
Song1Retagged == TrackInfo(4, "Song1", "X")
Song1Cover    == TrackInfo(1, "Song1", "Y")

\* get_player_state: A reports any of the three tracks or none, any status
\* or none, and a position; B plays without metadata
DiffStates(identity) ==
    IF identity = "A"
    THEN {PlayerState(t, s, p) :
             t \in {None, Some(Song1), Some(Song1Retagged), Some(Song1Cover)},
             s \in {None, Some(Playing), Some(Paused)},
             p \in {0, 300, 900}}
    ELSE {PlayerState(None, Some(Playing), 0)}
DiffSnapshots == SnapshotsOf([i \in Ids |-> DiffStates(i)])

DiffTick ==
    /\ ListenerPoll(DiffSnapshots, MaxTicks)
    /\ UNCHANGED <<mpris_events, listener_frame>>

DiffNext == DiffTick \/ ListenerEmit \/ ListenerDrain

SpecDiff == ListenerInit /\ [][DiffNext]_vars

\* the events of a given type that a sequence holds for a player
EventsFor(events, type, p) ==
    SelectSeq(events, LAMBDA e : e.type = type /\ e.player_name = p)

\* the players that are in the cache and in the snapshot of the poll
InBoth == DOMAIN player_states \cap DOMAIN snapshot'

\* C27: for a player in the cached and in the current snapshot with a track
\* in both, a poll pushes TrackChanged exactly when the title or the artist
\* differs; another track id alone pushes none.
C27_TrackChangedOnContent ==
    [][ticks' # ticks /\ DOMAIN snapshot' # {} =>
         \A p \in InBoth :
            (IsSome(player_states[p].track_info) /\ IsSome(snapshot'[p].track_info)) =>
               LET old_track == Unwrap(player_states[p].track_info)
                   new_track == Unwrap(snapshot'[p].track_info)
               IN (EventsFor(events_to_send', "TrackChanged", p) # <<>>)
                     <=> (old_track.title # new_track.title
                            \/ old_track.artist # new_track.artist)]_vars

\* C28: for a player in the cached and in the current snapshot, a poll
\* pushes PositionChanged only if the player is Playing and its position is
\* more than 500 ms beyond the cached one.
C28_PositionAdvanced ==
    [][ticks' # ticks /\ DOMAIN snapshot' # {} =>
         \A p \in InBoth :
            EventsFor(events_to_send', "PositionChanged", p) # <<>> =>
               /\ snapshot'[p].playback_status = Some(Playing)
               /\ snapshot'[p].last_position_ms > player_states[p].last_position_ms + 500]_vars

\* the players that are in the snapshot of the poll and not in the cache
NewPlayers == DOMAIN snapshot' \ DOMAIN player_states

\* the index of the first event of a player in a sequence
FirstOf(events, p) == CHOOSE k \in 1..Len(events) :
                         /\ events[k].player_name = p
                         /\ \A j \in 1..(k - 1) : events[j].player_name # p

\* C30: for a player that is in the current snapshot and not in the cached
\* one a poll pushes one PlayerAppeared, one TrackChanged if its track is
\* known (none otherwise), one PlaybackStatusChanged if its status is known
\* (none otherwise), and PlayerAppeared is the first of them.
C30_AppearanceEvents ==
    [][ticks' # ticks =>
         \A p \in NewPlayers :
            /\ Len(EventsFor(events_to_send', "PlayerAppeared", p)) = 1
            /\ Len(EventsFor(events_to_send', "TrackChanged", p))
                  = IF IsSome(snapshot'[p].track_info) THEN 1 ELSE 0
            /\ Len(EventsFor(events_to_send', "PlaybackStatusChanged", p))
                  = IF IsSome(snapshot'[p].playback_status) THEN 1 ELSE 0
            /\ events_to_send'[FirstOf(events_to_send', p)].type = "PlayerAppeared"
            /\ \A k \in 1..Len(events_to_send') :
                  (events_to_send'[k].type = "TrackChanged" /\ events_to_send'[k].player_name = p)
                     => events_to_send'[k].track_info = snapshot'[p].track_info
            /\ \A k \in 1..Len(events_to_send') :
                  (events_to_send'[k].type = "PlaybackStatusChanged"
                      /\ events_to_send'[k].player_name = p)
                     => Some(events_to_send'[k].status) = snapshot'[p].playback_status]_vars

\* the second poll found A, with track and status, next to the cached B:
\* the three events of A wait to be sent
C30_Witness ==
    /\ ticks = 2 /\ DOMAIN snapshot = {"A", "B"}
    /\ Len(EventsFor(events_to_send, "PlayerAppeared", "A")) = 1
    /\ Len(EventsFor(events_to_send, "TrackChanged", "A")) = 1
    /\ Len(EventsFor(events_to_send, "PlaybackStatusChanged", "A")) = 1
    /\ EventsFor(events_to_send, "PlayerAppeared", "B") = <<>>

\* the ActivePlayerChanged events of a sequence
Changes(events) == SelectSeq(events, LAMBDA e : e.type = "ActivePlayerChanged")

\* C29: a poll pushes ActivePlayerChanged only for a player other than the
\* one the pointer named before the poll, pushes none when the pointer it
\* leaves is the one it found, and leaves the pointer on what the selection
\* priority gives for the snapshot of the poll (a playing player, else a
\* paused one, else a visible one, else none).
C29_PointerFollowsSelection ==
    [][ticks' # ticks =>
         /\ \A k \in 1..Len(Changes(events_to_send')) :
               Some(Changes(events_to_send')[k].player_name) # active_player_name
         /\ active_player_name' = active_player_name => Changes(events_to_send') = <<>>
         /\ active_player_name' \in Preferred(snapshot')]_vars

----------------------------------------------------------------------------
\* Claims on the position arm of the lyrics manager

\* run takes the PositionChanged at the head of its queue
TakesPosition ==
    /\ RunIdle /\ RunHead.type = "PositionChanged"
    /\ lyrics_queue' = Tail(lyrics_queue)

----------------------------------------------------------------------------
\* Claims on the whole program

\* C32: once every queue is drained and every task has finished, the player
\* shown by the renderer is the current player of the lyrics manager.
C32_SamePlayerShown == PipelineQuiet => display_player = current_player

----------------------------------------------------------------------------
\* The mutexes of LyricsManager: every operation is the sequence of lock()
\* calls and guard drops it performs, one sequence per path through it

Lock(m)   == <<"lock", m>>
Unlock(m) == <<"unlock", m>>
\* a guard taken and dropped in a block of its own
Scoped(m) == <<Lock(m), Unlock(m)>>

\* select_best_player: player_status, then last_position_update; the guards
\* are dropped in the reverse order
select_best_player_locks ==
    <<Lock("player_status"), Lock("last_position_update"),
      Unlock("last_position_update"), Unlock("player_status")>>

notify_active_player_changed_locks == Scoped("player_status")

get_track_info_locks == Scoped("current_track")

\* handle_track_changed: empty title; no document found; document stored
handle_track_changed_locks ==
    {Scoped("current_track"),
     Scoped("current_track") \o Scoped("current_lyrics"),
     Scoped("current_track") \o Scoped("current_lyrics") \o Scoped("current_lyrics")}

\* handle_position_update: status unknown or Playing; manual mode; automatic
\* mode without and with a current player, without and with the switch
handle_position_update_locks ==
    LET recorded == Scoped("last_position_update") \o Scoped("player_status")
        inferred == recorded \o Scoped("last_position_update") \o Scoped("player_status")
                       \o Scoped("manual_mode")
    IN {recorded, inferred,
        inferred \o <<Lock("current_player"), Unlock("current_player")>>
                 \o notify_active_player_changed_locks,
        inferred \o <<Lock("current_player")>> \o Scoped("player_status")
                 \o <<Unlock("current_player")>>,
        inferred \o <<Lock("current_player")>> \o Scoped("player_status")
                 \o <<Unlock("current_player")>> \o notify_active_player_changed_locks}

\* what the arms of run do while they hold the guard of current_player:
\* nothing, a selection, a notification, or a selection and a notification
UnderCurrent ==
    {<<>>, notify_active_player_changed_locks, select_best_player_locks,
     select_best_player_locks \o notify_active_player_changed_locks}

\* run, one sequence per arm and path
run_locks ==
    handle_track_changed_locks
      \cup {Scoped("player_status") \o Scoped("manual_mode")
               \o <<Lock("current_player")>> \o inner \o <<Unlock("current_player")>>
               \o Scoped("current_player") : inner \in UnderCurrent}
      \cup {Scoped("player_status") \o Scoped("last_position_update")
               \o <<Lock("current_player")>> \o inner
               \o Scoped("current_track") \o Scoped("current_lyrics")
               \o <<Unlock("current_player")>> : inner \in UnderCurrent}
      \cup {<<Lock("current_player")>> \o get_track_info_locks \o <<Unlock("current_player")>>}
      \cup handle_position_update_locks

\* a get_current_lyrics that takes the cache before the pointer
get_current_lyrics_locks_inverted ==
    {<<Lock("current_lyrics"), Lock("current_player"),
       Unlock("current_player"), Unlock("current_lyrics")>>}

\* get_current_lyrics (and get_lyric_at_time, which calls it): no current
\* player; a current player
get_current_lyrics_locks ==
    {Scoped("current_player"),
     <<Lock("current_player"), Lock("current_lyrics"),
       Unlock("current_lyrics"), Unlock("current_player")>>}

\* set_current_player: unknown name; known name
set_current_player_locks ==
    LET exists == <<Lock("player_status"), Lock("current_track"),
                    Unlock("current_track"), Unlock("player_status")>>
    IN {exists, exists \o Scoped("current_player") \o notify_active_player_changed_locks}

\* the query methods the renderer calls
query_locks ==
    get_current_lyrics_locks \cup set_current_player_locks
      \cup {get_track_info_locks, Scoped("player_status") \o Scoped("current_track"),
            Scoped("current_player"), Scoped("player_status")}

Operations(t) ==
    IF t = "run" THEN run_locks
    ELSE IF t = "task" THEN handle_track_changed_locks
    ELSE query_locks

lock_frame == <<listener_vars, chan_vars, fwd_vars, orch_vars, display_player, doc_lines,
                query_ms, query_result, lrc_content, switch_call, song_search, compared, player_blacklist, poll_pc,
                hist_vars>>

\* a thread starts an operation
LockBegin ==
    /\ \E t \in Threads : \E script \in Operations(t) :
         /\ lock_script[t] = <<>>
         /\ lock_script' = [lock_script EXCEPT ![t] = script]
    /\ UNCHANGED <<mutex_owner, lock_frame>>

\* Mutex::lock: granted when no guard of the mutex is alive
LockAcquire ==
    /\ \E t \in Threads :
         /\ lock_script[t] # <<>> /\ Head(lock_script[t])[1] = "lock"
         /\ mutex_owner[Head(lock_script[t])[2]] = None
         /\ mutex_owner' = [mutex_owner EXCEPT ![Head(lock_script[t])[2]] = Some(t)]
         /\ lock_script' = [lock_script EXCEPT ![t] = Tail(lock_script[t])]
    /\ UNCHANGED lock_frame

\* the guard is dropped
LockRelease ==
    /\ \E t \in Threads :
         /\ lock_script[t] # <<>> /\ Head(lock_script[t])[1] = "unlock"
         /\ mutex_owner' = [mutex_owner EXCEPT ![Head(lock_script[t])[2]] = None]
         /\ lock_script' = [lock_script EXCEPT ![t] = Tail(lock_script[t])]
    /\ UNCHANGED lock_frame

LockNext == LockBegin \/ LockAcquire \/ LockRelease

SpecLocks == ListenerInit /\ [][LockNext]_vars

\* the threads that hold the mutex a thread is about to lock
WaitsFor(t) ==
    IF lock_script[t] # <<>> /\ Head(lock_script[t])[1] = "lock"
    THEN {u \in Threads : mutex_owner[Head(lock_script[t])[2]] = Some(u)}
    ELSE {}

\* C33: no thread is about to lock a mutex whose guard it holds, and no
\* threads wait for each other in a cycle, whatever operations the event
\* loop, a spawned lookup and the renderer run at the same time.
C33_NoLockCycle ==
    \A t \in Threads :
       /\ t \notin WaitsFor(t)
       /\ \A u \in WaitsFor(t) :
             /\ t \notin WaitsFor(u)
             /\ \A v \in WaitsFor(u) : t \notin WaitsFor(v)

\* the renderer waits for current_player while the event loop holds it
\* together with player_status and last_position_update, and the spawned
\* lookup holds current_lyrics
C33_Witness ==
    /\ WaitsFor("ui") = {"run"}
    /\ mutex_owner["current_player"] = Some("run")
    /\ mutex_owner["player_status"] = Some("run")
    /\ mutex_owner["last_position_update"] = Some("run")
    /\ mutex_owner["current_lyrics"] = Some("task")

----------------------------------------------------------------------------
\* Claims on the order of the events of one poll

\* run takes the ActivePlayerChanged at the head of its queue
TakesSwitch ==
    /\ RunIdle /\ RunHead.type = "ActivePlayerChanged"
    /\ lyrics_queue' = Tail(lyrics_queue)

\* C34: the ActivePlayerChanged of a poll is the last event the poll sends,
\* and when the lyrics manager takes an ActivePlayerChanged for A (a player
\* that reports a track in every snapshot) it has a track recorded for A.
C34_DiffBeforeSwitch ==
    /\ [](\A i \in 1..Len(events_to_send) :
            events_to_send[i].type = "ActivePlayerChanged" => i = Len(events_to_send))
    /\ [][(TakesSwitch /\ RunHead.player_name = "A") => "A" \in DOMAIN current_track]_vars

\* the manager is about to take the ActivePlayerChanged(A) of the second
\* poll, which also found that B is gone, and has handled PlayerDisappeared(B)
C34_Witness ==
    /\ RunIdle /\ RunHead.type = "ActivePlayerChanged"
    /\ RunHead.player_name = "A" /\ RunHead.tick = 2
    /\ "A" \in DOMAIN current_track /\ "B" \notin DOMAIN snapshot
    /\ active_player_name = Some("A") /\ "B" \notin DOMAIN player_status

----------------------------------------------------------------------------
\* Claims on the notifications of the lyrics manager

\* C35: only forward_events puts events into the queue of the lyrics
\* manager; a notification that is sent leaves that queue as it is and goes
\* to the display queue (or is dropped when the renderer is gone); no step
\* of the manager starts more than one notification.
C35_NoFeedback ==
    [][/\ Len(lyrics_queue') > Len(lyrics_queue) =>
             /\ IsSome(fwd_event) /\ lyrics_queue' = Append(lyrics_queue, Unwrap(fwd_event))
             /\ notify_tasks' = notify_tasks
       /\ BagCardinality(notify_tasks') < BagCardinality(notify_tasks) =>
             /\ lyrics_queue' = lyrics_queue
             /\ \E event \in BagToSet(notify_tasks) :
                   /\ notify_tasks' = notify_tasks (-) SetToBag({event})
                   /\ display_queue' = IF display_closed THEN display_queue
                                       ELSE Append(display_queue, event)
       /\ BagCardinality(notify_tasks') <= BagCardinality(notify_tasks) + 1]_vars

\* the listener's pointer never left A, and an ActivePlayerChanged(B) of
\* the manager waits in the display queue
C35_Witness ==
    /\ ticks = 2 /\ active_player_name = Some("A") /\ "B" \in DOMAIN snapshot
    /\ display_queue # <<>>
    /\ Head(display_queue).type = "ActivePlayerChanged"
    /\ Head(display_queue).player_name = "B"
    /\ current_player = Some("B")

----------------------------------------------------------------------------
\* The lyrics manager taken alone with the renderer's switch requests

\* PlayerManager::set_current_player: a player is known by its status only
set_current_player_by_status(name) ==
    IF name \in DOMAIN player_status
    THEN <<TRUE, Some(name), <<name>>>>
    ELSE <<FALSE, current_player, <<>>>>

\* LyricsManager::set_current_player: <<returned, current_player', notified>>
set_current_player(name) ==
    IF name \in DOMAIN player_status \/ name \in DOMAIN current_track
    THEN <<TRUE, Some(name), <<name>>>>
    ELSE <<FALSE, current_player, <<>>>>

\* one call of set_current_player by the renderer
SetCurrentPlayer ==
    /\ NotifyRoom
    /\ \E name \in Ids :
         LET r == set_current_player(name)
             flip == IF IsSome(switch_call) THEN 1 - Unwrap(switch_call).flip ELSE 0
         IN /\ switch_call' = Some([name |-> name, returned |-> r[1], flip |-> flip])
            /\ current_player' = r[2]
            /\ notify_tasks' = Notify(player_status, r[3], 0)
    /\ UNCHANGED <<listener_vars, chan_vars, fwd_vars, player_status, current_track,
                   current_lyrics, manual_mode, last_position_update, run_task,
                   spawned_tasks, display_player, doc_lines, query_ms, query_result,
                   lrc_content, song_search, compared, lock_vars, player_blacklist,
                   poll_pc, hist_vars>>

\* the events sent to the manager
ManualEvents ==
    {PlaybackStatusChanged("B", Playing), TrackChanged("A", Song1),
     PlayerDisappeared("B")}

\* tx.send(event).await on the manager's queue
ManualSend ==
    /\ Len(lyrics_queue) < ChanCap
    /\ \E e \in ManualEvents : lyrics_queue' = Append(lyrics_queue, e)
    /\ UNCHANGED <<listener_vars, mpris_events, display_queue, closed_vars, fwd_vars,
                   orch_vars, display_player, lookup_vars, player_blacklist, poll_pc,
                   hist_vars>>

ManualNext ==
    \/ ManualSend \/ SetCurrentPlayer
    \/ OnPlaybackStatusChanged \/ OnPlayerDisappeared
    \/ OnTrackChanged \/ TrackClear \/ TrackFetch \/ TrackStore
    \/ NotifyDeliver \/ Display

ManualInit == Constructed /\ manual_mode = TRUE /\ doc_lines = <<>>
                 /\ player_blacklist = {} /\ poll_pc = "tick"

SpecManual == ManualInit /\ [][ManualNext]_vars

\* C36: a set_current_player(name) for a name with neither a recorded
\* status nor a recorded track returns false, changes no current player and
\* starts no notification; for a known name it returns true, makes it the
\* current player and starts one ActivePlayerChanged that names it.
C36_SwitchRequest ==
    [][switch_call' # switch_call =>
         LET call == Unwrap(switch_call')
         IN IF call.name \in DOMAIN player_status \cup DOMAIN current_track
            THEN /\ call.returned
                 /\ current_player' = Some(call.name)
                 /\ \E event \in BagToSet(notify_tasks') :
                       /\ notify_tasks' = notify_tasks (+) SetToBag({event})
                       /\ event.type = "ActivePlayerChanged"
                       /\ event.player_name = call.name
            ELSE /\ ~call.returned
                 /\ current_player' = current_player
                 /\ notify_tasks' = notify_tasks]_vars

\* a switch to A, known by its track only, was accepted after a switch to
\* an unknown player was refused; its notification is not sent yet
C36_Witness ==
    /\ IsSome(switch_call) /\ Unwrap(switch_call).name = "A"
    /\ Unwrap(switch_call).returned /\ Unwrap(switch_call).flip = 1
    /\ "A" \in DOMAIN current_track /\ "A" \notin DOMAIN player_status
    /\ current_player = Some("A")
    /\ \E event \in BagToSet(notify_tasks) : event.player_name = "A"

----------------------------------------------------------------------------
\* String similarity (utils/string.rs); a string is a sequence of characters
\* and an f64 result is the exact fraction <<numerator, denominator>>

MaxStr == 3

\* letters in both cases, a punctuation mark and a space
TitleChars == {"a", "A", "b", "!", " "}
TitleStrings == UNION {[1..n -> TitleChars] : n \in 0..MaxStr}

\* the class [\p{L}\p{N}\s] that the regex keeps
IsKept(c) == c \in {"a", "A", "b", " "}

RECURSIVE trim_start(_)
trim_start(s) == IF s # <<>> /\ Head(s) = " " THEN trim_start(Tail(s)) ELSE s

RECURSIVE trim_end(_)
trim_end(s) ==
    IF s # <<>> /\ s[Len(s)] = " " THEN trim_end(SubSeq(s, 1, Len(s) - 1)) ELSE s

trim(s) == trim_end(trim_start(s))

sanitize_string(input) ==
    LET result == trim(SelectSeq(input, IsKept))
    IN to_lowercase(result)

Min(x, y) == IF x < y THEN x ELSE y
Max(x, y) == IF x > y THEN x ELSE y

\* matrix[i][j] of levenshtein_distance
RECURSIVE matrix(_, _, _, _)
matrix(a, b, i, j) ==
    IF j = 0 THEN i
    ELSE IF i = 0 THEN j
    ELSE LET cost == IF a[i] = b[j] THEN 0 ELSE 1
         IN Min(Min(matrix(a, b, i - 1, j) + 1, matrix(a, b, i, j - 1) + 1),
                matrix(a, b, i - 1, j - 1) + cost)

\* the matrix with the cost of a substitution charged for equal characters too
RECURSIVE matrix_always_cost(_, _, _, _)
matrix_always_cost(a, b, i, j) ==
    IF j = 0 THEN i
    ELSE IF i = 0 THEN j
    ELSE Min(Min(matrix_always_cost(a, b, i - 1, j) + 1,
                 matrix_always_cost(a, b, i, j - 1) + 1),
             matrix_always_cost(a, b, i - 1, j - 1) + 1)

levenshtein_always_cost(a, b) == matrix_always_cost(a, b, Len(a), Len(b))

levenshtein_distance(a, b) ==
    IF Len(a) = 0 THEN Len(b)
    ELSE IF Len(b) = 0 THEN Len(a)
    ELSE matrix(a, b, Len(a), Len(b))

string_similarity(a, b) ==
    LET a_clean == sanitize_string(a)
        b_clean == sanitize_string(b)
        max_len == Max(Len(a_clean), Len(b_clean))
    IN IF a_clean = <<>> \/ b_clean = <<>>
       THEN <<0, 1>>
       ELSE <<max_len - levenshtein_distance(a_clean, b_clean), max_len>>

\* the strings a title is compared with
Titles == {<<"a", "b">>, <<"a">>, <<"b", "a">>, <<" ">>, <<>>}

\* one call string_similarity(a, b)
Compare ==
    /\ compared = None
    /\ \E a \in TitleStrings, b \in Titles :
         compared' = Some([a |-> a, b |-> b, similarity |-> string_similarity(a, b)])
    /\ UNCHANGED <<listener_vars, chan_vars, fwd_vars, orch_vars, display_player, doc_lines,
                   query_ms, query_result, lrc_content, switch_call, song_search, lock_vars,
                   player_blacklist, poll_pc, hist_vars>>

SimilarityNext == Compare

SpecSimilarity == ListenerInit /\ [][SimilarityNext]_vars

\* the strings one insertion, deletion or substitution away from s, none
\* longer than n
Edits(s, n) ==
    LET letters == {to_lowercase(<<c>>)[1] : c \in {d \in TitleChars : IsKept(d)}}
    IN {SubSeq(s, 1, k - 1) \o SubSeq(s, k + 1, Len(s)) : k \in 1..Len(s)}
       \cup {SubSeq(s, 1, k - 1) \o <<c>> \o SubSeq(s, k + 1, Len(s)) :
                k \in 1..Len(s), c \in letters}
       \cup (IF Len(s) < n
             THEN {SubSeq(s, 1, k) \o <<c>> \o SubSeq(s, k + 1, Len(s)) :
                     k \in 0..Len(s), c \in letters}
             ELSE {})

RECURSIVE Reach(_, _, _)
Reach(a, k, n) ==
    IF k = 0 THEN {a}
    ELSE LET R == Reach(a, k - 1, n) IN R \cup UNION {Edits(s, n) : s \in R}

\* the least number of single-character edits that turn a into b
EditDistance(a, b) ==
    LET n == Max(Len(a), Len(b))
    IN CHOOSE k \in 0..n :
         /\ b \in Reach(a, k, n)
         /\ k = 0 \/ b \notin Reach(a, k - 1, n)

\* lower-casing and stripping punctuation, and nothing else
FoldedStripped(s) ==
    to_lowercase(SelectSeq(s, IsKept))

\* C40 as stated: the similarity is 1.0 exactly when the two strings are
\* non-empty and equal after lower-casing and stripping punctuation.
C40_OneIffEqualFolded ==
    IsSome(compared) =>
        LET c == Unwrap(compared)
        IN c.similarity[1] = c.similarity[2]
             <=> /\ FoldedStripped(c.a) # <<>> /\ FoldedStripped(c.b) # <<>>
                 /\ FoldedStripped(c.a) = FoldedStripped(c.b)

\* C40: string_similarity(a, b) is 1.0 exactly when the two sanitized
\* strings (punctuation stripped, surrounding whitespace trimmed, lower-cased)
\* are non-empty and equal, 0.0 when either sanitized string is empty, and
\* otherwise 1 minus the edit distance of the sanitized strings over the
\* longer length; it has the same value with its arguments exchanged.
C40_Similarity ==
    IsSome(compared) =>
        LET c == Unwrap(compared)
            a == sanitize_string(c.a)
            b == sanitize_string(c.b)
            longer == Max(Len(a), Len(b))
        IN /\ c.similarity[1] = c.similarity[2] <=> (a # <<>> /\ b # <<>> /\ a = b)
           /\ (a = <<>> \/ b = <<>>) => c.similarity = <<0, 1>>
           /\ (a # <<>> /\ b # <<>>) =>
                 c.similarity = <<longer - EditDistance(a, b), longer>>
           /\ c.similarity = string_similarity(c.b, c.a)

\* "A!b" against "ba": two sanitized strings of equal length at distance 2
C40_Witness ==
    /\ IsSome(compared)
    /\ Unwrap(compared).a = <<"A", "!", "b">> /\ Unwrap(compared).b = <<"b", "a">>
    /\ Unwrap(compared).similarity = <<0, 2>>

----------------------------------------------------------------------------
\* A provider's choice among the songs of a search result (find_best_match
\* of the NetEase and QQ Music providers; QQ Music gives the duration in
\* seconds and multiplies it by 1000 first)

MaxSongs == 3
DurationThreshold == 5000

\* x + y and x > y on fractions
Plus(x, y) == <<x[1] * y[2] + y[1] * x[2], x[2] * y[2]>>
Greater(x, y) == x[1] * y[2] > y[1] * x[2]

\* the best score over a song's artists, from 0.0
RECURSIVE artist_score(_, _)
artist_score(track, artists) ==
    IF artists = <<>> THEN <<0, 1>>
    ELSE LET rest == artist_score(track, SubSeq(artists, 1, Len(artists) - 1))
             current_score == string_similarity(track.artist, artists[Len(artists)])
         IN IF Greater(current_score, rest) THEN current_score ELSE rest

\* title_score * 2.0 + artist_score + album_score
song_score(track, song) ==
    LET title_score == string_similarity(track.title, song.name)
        album_score == string_similarity(track.album, song.al)
    IN Plus(Plus(<<2 * title_score[1], title_score[2]>>, artist_score(track, song.ar)),
            album_score)

\* the loop over all_song, before song i; indices count from 1
RECURSIVE match_loop(_, _, _)
match_loop(all_song, track, i) ==
    IF i = 0
    THEN [best_match_index |-> 1, best_match_score |-> <<0, 1>>,
          exact_duration_match |-> None, exact_duration_match_score |-> <<0, 1>>]
    ELSE LET m == match_loop(all_song, track, i - 1)
             song == all_song[i]
             score == song_score(track, song)
             song_duration == Unwrap(song.dt)
             diff_ms == IF song_duration > track.length_ms
                        THEN song_duration - track.length_ms
                        ELSE track.length_ms - song_duration
             exact == /\ track.length_ms > 0
                      /\ IsSome(song.dt)
                      /\ diff_ms < DurationThreshold
                      /\ \/ m.exact_duration_match = None
                         \/ Greater(score, m.exact_duration_match_score)
             best == Greater(score, m.best_match_score)
         IN [best_match_index |-> IF best THEN i ELSE m.best_match_index,
             best_match_score |-> IF best THEN score ELSE m.best_match_score,
             exact_duration_match |-> IF exact THEN Some(i) ELSE m.exact_duration_match,
             exact_duration_match_score |->
                 IF exact THEN score ELSE m.exact_duration_match_score]

\* a choice by the text score alone
find_best_match_by_score(all_song, track) ==
    IF all_song = <<>> THEN None
    ELSE Some(match_loop(all_song, track, Len(all_song)).best_match_index)

\* Option: the index of the chosen song
find_best_match(all_song, track) ==
    IF all_song = <<>> THEN None
    ELSE LET m == match_loop(all_song, track, Len(all_song))
         IN IF IsSome(m.exact_duration_match)
            THEN m.exact_duration_match
            ELSE Some(m.best_match_index)

\* the track searched for, of known or unknown length
SearchedTracks ==
    {[title |-> <<"a", "b">>, artist |-> <<"a">>, album |-> <<>>, length_ms |-> l] :
        l \in {0, 200000}}

\* the songs of a result: "dt" may be missing
Songs ==
    [name : {<<"a", "b">>, <<"a">>}, ar : {<<>>, <<<<"a">>>>}, al : {<<>>},
     dt : {None, Some(195000), Some(195001)}]

\* one call find_best_match(data, track)
FindBestMatch ==
    /\ song_search = None
    /\ \E track \in SearchedTracks, n \in 0..MaxSongs :
         \E all_song \in [1..n -> Songs] :
            song_search' = Some([track |-> track, all_song |-> all_song,
                                 final_index |-> find_best_match(all_song, track)])
    /\ UNCHANGED <<listener_vars, chan_vars, fwd_vars, orch_vars, display_player, doc_lines,
                   query_ms, query_result, lrc_content, switch_call, compared, lock_vars,
                   player_blacklist, poll_pc, hist_vars>>

SearchNext == FindBestMatch

SpecSearch == ListenerInit /\ [][SearchNext]_vars

\* the songs of a search whose duration is within the threshold of the track's
Within(search) ==
    {i \in 1..Len(search.all_song) :
        /\ IsSome(search.all_song[i].dt)
        /\ Unwrap(search.all_song[i].dt) - search.track.length_ms < DurationThreshold
        /\ search.track.length_ms - Unwrap(search.all_song[i].dt) < DurationThreshold}

\* song i scores at least as high as every song of the set
Highest(search, i, set) ==
    \A j \in set :
        ~Greater(song_score(search.track, search.all_song[j]),
                 song_score(search.track, search.all_song[i]))

\* C37: for a track of known length, when some song's duration is less
\* than 5000 ms from the track's, the chosen song is one of those and none
\* of those scores higher, whatever the songs outside score; when no song
\* is that close, no song scores higher than the chosen one.
C37_DurationOverride ==
    (IsSome(song_search) /\ Unwrap(song_search).all_song # <<>>
        /\ Unwrap(song_search).track.length_ms > 0) =>
        LET search == Unwrap(song_search)
            final_index == Unwrap(search.final_index)
        IN IF Within(search) # {}
           THEN final_index \in Within(search) /\ Highest(search, final_index, Within(search))
           ELSE Highest(search, final_index, 1..Len(search.all_song))

\* the best text score belongs to a song 5000 ms away; of the two songs
\* 4999 ms away the second scores higher and is chosen
C37_Witness ==
    /\ IsSome(song_search) /\ Len(Unwrap(song_search).all_song) = 3
    /\ Unwrap(song_search).track.length_ms = 200000
    /\ Unwrap(song_search).all_song[1] =
          [name |-> <<"a", "b">>, ar |-> <<<<"a">>>>, al |-> <<>>, dt |-> Some(195000)]
    /\ Unwrap(song_search).all_song[2] =
          [name |-> <<"a">>, ar |-> <<>>, al |-> <<>>, dt |-> Some(195001)]
    /\ Unwrap(song_search).all_song[3] =
          [name |-> <<"a", "b">>, ar |-> <<>>, al |-> <<>>, dt |-> Some(195001)]
    /\ Unwrap(song_search).final_index = Some(3)

====
